---- MODULE Spec2Model ----
(***************************************************************************)
(* Koala Ledger payroll: the Daily Time Record (DTR) forms, the DTR bulk   *)
(* editor and the payroll generation of emp.py and moon.py, which share    *)
(* the files payroll_employees.csv and payroll_dtr.csv.                    *)
(*                                                                         *)
(* Units.  Clock times and hours are kept in minutes (08:00 is 480, eight  *)
(* hours are 480 minutes).  Rate multipliers are kept in hundredths (1.25  *)
(* is 125).  A pay amount is kept in 1/6000 peso, so that                  *)
(* hours * hourly_rate * multiplier is an integer: 800 pesos is 4800000.   *)
(* Clock times are drawn from the half-hour grid, on which every float     *)
(* the code computes is exact.                                             *)
(*                                                                         *)
(* A table is the sequence of the rows of its CSV file; a text column      *)
(* holds the text in the file, and each loader turns it into the value the *)
(* code sees.  The Notes column and the employee columns Position,         *)
(* Start_Date, Status and Daily_Rate take part in no computation and are   *)
(* left out.                                                               *)
(*                                                                         *)
(* The module also holds the time trackers clocky.py and online_clocky.py  *)
(* and the counter: the sales pages of app.py and moon.py over sales.csv,  *)
(* with app.py's shop password and owner password.  Each part has its own  *)
(* specifications over the shared variables.                               *)
(***************************************************************************)
EXTENDS Integers, Sequences, FiniteSets, TLC

VARIABLES employees, dtr, last, calc, sess

\* clocky.py: the wall clock, the TimeTrackerApp fields timer_running,
\* start_time, config and tree, the text of start_stop_button, the files
\* time_records.csv and config.json, the outcome of the last handler, and
\* the open "Edit Record" windows, each with the item id it was opened on
VARIABLES now, timer_running, start_time, button, tree, config,
          records_file, config_file, did, edit_wins

\* online_clocky.py: st.session_state.timer_running and .start_time, and the
\* files online_time_records.csv and online_config.json
VARIABLES online_running, online_start, online_records, online_config

\* which of the two trackers was started: "clocky" (python clocky.py) or
\* "online_clocky" (streamlit run online_clocky.py)
VARIABLE program

\* app.py and the Sales & Orders section of moon.py: the file sales.csv, the
\* wall clock at the counter, app.py's st.session_state["password_correct"] and
\* .dashboard_unlocked ("absent" while the key is not in the session state),
\* and what the last script run did
VARIABLES sales, wall, password_correct, dashboard_unlocked, run

payroll == <<employees, dtr, last, calc, sess>>
desktop == <<timer_running, start_time, button, tree, config, records_file, config_file, did,
             edit_wins>>
web == <<online_running, online_start, online_records, online_config>>
counter == <<sales, wall, password_correct, dashboard_unlocked, run>>

\* the state outside app.py and the sales pages of moon.py
backoffice == <<payroll, now, program, desktop, web>>

\* the state outside the payroll programs
outside == <<now, program, desktop, web, counter>>

vars == <<employees, dtr, last, calc, sess, outside>>

\* ------------------------------------------------------------------ bounds
MaxEmployees == 2
MaxRows == 2
MaxDate == 2
MaxRoster == 12
MaxClock == 3
MaxRecords == 2
MaxDialogs == 2
MaxOrders == 2
MaxWall == 3

\* ------------------------------------------------------- program constants
MinutesPerHour == 60
BreakThresholdHours == 5
RegularCapHours == 8
EmpBreakMinutes == 60
AdminBreakMinutes == 30
RateUnit == 100
TicksPerDay == 2
HoursPerTick == 12
DefaultRate == 300
TicksPerSecond == 2

Min(a, b) == IF a < b THEN a ELSE b
Max(a, b) == IF a > b THEN a ELSE b

\* ------------------------------------------------------------ input sets
Dates == 1..MaxDate
\* every half hour of the day, 00:00 .. 23:30
TimeGrid == {m \in 0..(24 * MinutesPerHour - 1) : m % 30 = 0}
\* the <<time in, time out, holiday>> the table forms are driven with:
\* 08:00-17:00, 08:00-20:00 on a holiday, and 18:00-17:00 (out before in)
FormShifts == {<<8 * MinutesPerHour, 17 * MinutesPerHour, FALSE>>,
               <<8 * MinutesPerHour, 20 * MinutesPerHour, TRUE>>,
               <<18 * MinutesPerHour, 17 * MinutesPerHour, FALSE>>}
EmployeeNames == {"Ana", ""}
EditNames == {"Ann"}
RateCards == {[Hourly_Rate |-> 100, OT_Rate |-> 125, Holiday_Rate |-> 200]}

\* ------------------------------------------------------------ hours split
\* (dt_out - dt_in).total_seconds() / 3600, in minutes
RawHours(t_in, t_out) == t_out - t_in

EmpAdjustedBug(raw) ==
    IF raw >= BreakThresholdHours * MinutesPerHour THEN raw - EmpBreakMinutes ELSE raw

\* emp.py dtr_form and moon.py Staff Timekeeping: if total_hours > 5: total_hours -= 1
EmpAdjusted(raw) ==
    IF raw > BreakThresholdHours * MinutesPerHour THEN raw - EmpBreakMinutes ELSE raw

\* moon.py admin_dtr_form: if hrs > 5: hrs -= 0.5
AdminAdjusted(raw) ==
    IF raw > BreakThresholdHours * MinutesPerHour THEN raw - AdminBreakMinutes ELSE raw

\* reg_hours = min(total_hours, 8.0)
RegHours(adjusted) == Min(adjusted, RegularCapHours * MinutesPerHour)

\* ot_hours = max(total_hours - 8.0, 0.0)
OtHours(adjusted) == Max(adjusted - RegularCapHours * MinutesPerHour, 0)

Forms == {"emp", "staff", "admin"}

\* every form deducting the half hour of admin_dtr_form
AdminForAll(form, raw) == AdminAdjusted(raw)

Adjusted(form, raw) == IF form = "admin" THEN AdminAdjusted(raw) ELSE EmpAdjusted(raw)

\* the hours a Log Time form derives from the two clock times
HoursSplit(form, t_in, t_out) ==
    LET raw == RawHours(t_in, t_out)
        adj == Adjusted(form, raw)
    IN  [raw |-> raw, adjusted |-> adj, reg |-> RegHours(adj), ot |-> OtHours(adj)]

NoCalc == [form |-> "none", t_in |-> 0, t_out |-> 0, done |-> FALSE,
           raw |-> 0, adjusted |-> 0, reg |-> 0, ot |-> 0]
NoLast == [op |-> "init", outcome |-> "none", form |-> "none", row |-> <<>>,
           start |-> 0, end |-> 0, merged |-> <<>>, summary |-> {}]

\* --------------------------------------------------- CSV text and values
\* the texts pandas.read_csv takes for a missing value (its default na_values)
NaTexts ==
    {"", "#N/A", "#N/A N/A", "#NA", "-1.#IND", "-1.#QNAN", "-NaN", "-nan",
     "1.#IND", "1.#QNAN", "<NA>", "N/A", "NA", "NULL", "NaN", "None", "n/a",
     "nan", "null"}

\* emp.py load_csv, pd.read_csv(file): a text column cell is NaN or its text
EmpReadText(txt) ==
    IF txt \in NaTexts THEN [nan |-> TRUE, s |-> ""] ELSE [nan |-> FALSE, s |-> txt]

\* moon.py load_csv, pd.read_csv(file, dtype=str).fillna("")
MoonReadText(txt) == IF txt \in NaTexts THEN "" ELSE txt

\* df.to_csv writes NaN as the empty text
WriteText(v) == IF v.nan THEN "" ELSE v.s

\* f"{row['Name']}": NaN is formatted as nan
FormatText(v) == IF v.nan THEN "nan" ELSE v.s

\* str(True) / str(False), as to_csv writes a checkbox value
BoolText(b) == IF b THEN "True" ELSE "False"

FormatIdTensDropped(n) == <<"EMP-", n \div 100, 0, n % 10>>

\* f"EMP-{n:03d}" for n < 1000
FormatId(n) == <<"EMP-", n \div 100, (n \div 10) % 10, n % 10>>

\* a table read by emp.py and written back: concat([load_csv(key), new]) then save_csv
EmpRewrite(table) ==
    [k \in 1..Len(table) |-> [table[k] EXCEPT !.Name = WriteText(EmpReadText(@))]]

\* a table read by moon.py and written back
MoonRewrite(table) ==
    [k \in 1..Len(table) |-> [table[k] EXCEPT !.Name = MoonReadText(@)]]

\* sel_name of the select box "{Name} ({Employee_ID})", split at " (" (names hold no " (")
EmpSelName(e) == FormatText(EmpReadText(e.Name))
MoonSelName(e) == MoonReadText(e.Name)

NewRow(d, id, name, t_in, t_out, h, hol) ==
    [Date |-> d, Employee_ID |-> id, Name |-> name, Time_In |-> t_in, Time_Out |-> t_out,
     Reg_Hours |-> h.reg, OT_Hours |-> h.ot, Is_Holiday |-> BoolText(hol)]

\* two browser sessions of emp.py, each running the script in its own thread
Sessions == {1, 2}

\* a session whose script run has ended: nothing loaded, nothing to write
IdleSession == [pc |-> "idle", op |-> "none", snap |-> <<>>, row |-> <<>>, edit |-> "none"]

\* ------------------------------------------------- the two time trackers
\* Units.  The wall clock counts half days: datetime.now() is one of the
\* moments 0..MaxClock, moment t being 00:00 or 12:00 of day t \div 2.  A
\* duration is a number of half days, hours are kept in thousandths of an
\* hour and amounts in hundredths of the currency unit, so that the texts
\* f"{hours:.3f}" and f"{amount:.2f}" are exact.
\* A project or task text is the sequence of its characters.
Moments == 0..MaxClock
Projects == {<<"W", "a", "s", "h">>}
Tasks == {<<"F", "o", "l", "d">>}
\* the texts a Start is tried with: none, one blank, a letter between blanks
StartTexts == {<<>>, <<" ">>, <<" ", "W", " ">>}
Rates == {DefaultRate, 250}
Programs == {"clocky", "online_clocky"}
\* a text that is no date and time
BadText == <<"x">>

\* dt.strftime("%Y-%m-%d %H:%M:%S"): the date part and the time part
FullText(t) == <<t \div TicksPerDay, t % TicksPerDay>>

\* what the edit dialog holds at its Save: the project left as it was with a
\* Start and End typed; the project changed, other moments typed and Billable
\* cleared; a Start text that is no date and time
EditEntries ==
    {[proj |-> <<"W", "a", "s", "h">>, task |-> <<"F", "o", "l", "d">>,
      start_e |-> FullText(0), end_e |-> FullText(1), bill |-> TRUE],
     [proj |-> <<"D", "r", "y">>, task |-> <<"F", "o", "l", "d">>,
      start_e |-> FullText(2), end_e |-> FullText(3), bill |-> FALSE],
     [proj |-> <<"W", "a", "s", "h">>, task |-> <<"F", "o", "l", "d">>,
      start_e |-> BadText, end_e |-> FullText(1), bill |-> TRUE]}

\* datetime.strptime(text, "%Y-%m-%d %H:%M:%S") of a text with both parts
Moment(txt) == txt[1] * TicksPerDay + txt[2]

\* clocky.py add_record: parts = text.split(" ") if text else ["", "00:00:00"];
\* parts[1] if len(parts) > 1 else "00:00:00"
DisplayTime(txt) == IF txt = <<>> THEN <<0>> ELSE IF Len(txt) > 1 THEN <<txt[2]>> ELSE <<0>>

RECURSIVE StripLeft(_)
StripLeft(txt) ==
    IF txt # <<>> /\ Head(txt) = " " THEN StripLeft(Tail(txt)) ELSE txt

RECURSIVE StripRight(_)
StripRight(txt) ==
    IF txt # <<>> /\ txt[Len(txt)] = " "
    THEN StripRight(SubSeq(txt, 1, Len(txt) - 1)) ELSE txt

\* str.strip(): the text without its leading and trailing blanks
Strip(txt) == StripRight(StripLeft(txt))

\* duration.total_seconds() / 3600.0, as written by f"{hours:.3f}" or round(hours, 3)
HoursOf(duration) == duration * HoursPerTick * 1000

\* hours * hourly_rate if billable else 0.0, as written by f"{amount:.2f}" or round(amount, 2)
AmountOf(hours, rate, billable) == IF billable THEN (hours * rate) \div 10 ELSE 0

\* load_config(): the rate in the config file, or DEFAULT_CONFIG without a file
LoadConfig(file) == IF file = <<>> THEN DefaultRate ELSE file[1]

NoDid == [op |-> "launch", outcome |-> "none", pos |-> 0, start |-> <<>>, end |-> <<>>]

\* clocky.py TimeTrackerApp.__init__ with neither file present, and
\* online_clocky.py's session state defaults
InitTrackers ==
    /\ now = 0
    /\ timer_running = FALSE
    /\ start_time = <<>>
    /\ button = "Start"
    /\ tree = <<>>
    /\ config = DefaultRate
    /\ records_file = <<>>
    /\ config_file = <<>>
    /\ did = NoDid
    /\ edit_wins = <<>>
    /\ online_running = FALSE
    /\ online_start = <<>>
    /\ online_records = <<>>
    /\ online_config = <<>>

\* ------------------------------------------------- sales.csv and app.py gate
\* Units.  The counter's wall clock counts half seconds.  Amounts are whole
\* pesos (every float the order form computes from them is exact).  A row of
\* sales.csv holds the columns below; Date and Garment_Type take part in
\* nothing modelled here and are left out.  A Contact text is kept as its
\* digits and whether ".0" follows them; the empty text has no digit.  A Notes
\* text is kept as the supplies it lists and the free text after them.
ACCESS_PASSWORD == "Koala2025"
DASHBOARD_PASSWORD == "Bebot88"
TIERS == ("Tier 1" :> 125) @@ ("Tier 2" :> 150)
WorkStatuses == {"WIP", "Ready", "Claimed"}
PaymentStatuses == {"Paid", "Unpaid"}
PaymentTypes == {"Cash", "GCash"}

\* the passwords typed into either password input
Passwords == {ACCESS_PASSWORD, DASHBOARD_PASSWORD, "guess"}

Digits(ds) == [digits |-> ds, frac |-> FALSE]
NoContact == Digits(<<>>)

\* the New Sale forms submitted: an order of one Tier 1 load with the contact
\* 09, an order with supplies and a misc amount and no contact, and a form
\* without a customer name
OrderForms ==
    {[cust_name |-> "Ana", contact |-> Digits(<<0, 9>>), selected_tier |-> "Tier 1",
      loads |-> 1, open_amt |-> 0, pay_type |-> "Cash", pay_status |-> "Unpaid",
      det_price |-> 0, fab_price |-> 0, notes |-> "", work_status |-> "WIP"],
     [cust_name |-> "Ben", contact |-> NoContact, selected_tier |-> "Tier 2",
      loads |-> 2, open_amt |-> 20, pay_type |-> "GCash", pay_status |-> "Paid",
      det_price |-> 10, fab_price |-> 5, notes |-> "rush", work_status |-> "Ready"],
     [cust_name |-> "", contact |-> NoContact, selected_tier |-> "Tier 1",
      loads |-> 1, open_amt |-> 0, pay_type |-> "Cash", pay_status |-> "Unpaid",
      det_price |-> 0, fab_price |-> 0, notes |-> "", work_status |-> "WIP"]}

\* what is chosen and typed in the Update Status form
Updates == {[work |-> "Claimed", pay |-> "Paid", type |-> "GCash", notes |-> "picked up"]}

\* datetime.now().strftime("%y%m%d-%H%M%S"): the moment cut to its second
OrderId(t) == <<t \div TicksPerSecond>>

\* the Order_ID texts typed into the fetch input
FetchIds == {OrderId(t) : t \in 0..MaxWall}

RECURSIVE DigitsValue(_)
\* the integer a text of digits is parsed as
DigitsValue(ds) ==
    IF ds = <<>> THEN 0 ELSE DigitsValue(SubSeq(ds, 1, Len(ds) - 1)) * 10 + ds[Len(ds)]

RECURSIVE ValueDigits(_)
\* str(n) of a non-negative integer
ValueDigits(n) == IF n < 10 THEN <<n>> ELSE Append(ValueDigits(n \div 10), n % 10)

\* pd.read_csv(file) without dtype, then to_csv: the Contact column is int64
\* when every cell is an integer text, and float64 when every cell is a number
\* text or empty and some cell is empty or has a fraction; an integer is
\* written by its digits and a float with ".0", NaN as the empty text
PlainContacts(col) ==
    LET blank(c) == c.digits = <<>>
        n == Len(col)
    IN  IF \A k \in 1..n : blank(col[k]) THEN col
        ELSE IF \A k \in 1..n : ~blank(col[k]) /\ ~col[k].frac
        THEN [k \in 1..n |-> Digits(ValueDigits(DigitsValue(col[k].digits)))]
        ELSE [k \in 1..n |->
                IF blank(col[k]) THEN col[k]
                ELSE [digits |-> ValueDigits(DigitsValue(col[k].digits)), frac |-> TRUE]]

\* app.py Confirm Order: current_df = pd.read_csv(FILES["sales"]), written back
PlainRewrite(table) ==
    LET col == PlainContacts([k \in 1..Len(table) |-> table[k].Contact])
    IN  [k \in 1..Len(table) |-> [table[k] EXCEPT !.Contact = col[k]]]

\* load_data / load_sales_data: dtype str keeps a Contact text as it is and
\* reads the empty text as NaN; Notes NaN becomes ""
StrRead(c) == [nan |-> c = NoContact, s |-> c]
StrWrite(v) == IF v.nan THEN NoContact ELSE v.s

\* a table read by load_data and written back
LoadRewrite(table) ==
    [k \in 1..Len(table) |-> [table[k] EXCEPT !.Contact = StrWrite(StrRead(@))]]

\* supplies_final: the supplies with a price (no brand is typed), or "None"
Supplies(det_price, fab_price) ==
    LET supplies_str == (IF det_price > 0 THEN <<<<"Det", det_price>>>> ELSE <<>>)
                        \o (IF fab_price > 0 THEN <<<<"Fab", fab_price>>>> ELSE <<>>)
    IN  IF supplies_str # <<>> THEN supplies_str ELSE <<<<"None", 0>>>>

\* a Notes text typed by hand
Typed(txt) == [supplies |-> <<>>, text |-> txt]

\* new_entry of Confirm Order
NewEntry(f, t) ==
    LET base_price == TIERS[f.selected_tier] * f.loads
        supplies_total == f.det_price + f.fab_price
        grand_total == base_price + supplies_total + f.open_amt
    IN  [Order_ID |-> OrderId(t), Customer |-> f.cust_name, Contact |-> f.contact,
         Tier |-> f.selected_tier, Loads |-> f.loads, Additionals |-> supplies_total,
         Misc_Amount |-> f.open_amt, Amount |-> grand_total,
         Payment_Type |-> f.pay_type, Payment_Status |-> f.pay_status,
         Work_Status |-> f.work_status,
         Notes |-> [supplies |-> Supplies(f.det_price, f.fab_price), text |-> f.notes]]

NoRun == [prog |-> "none", op |-> "start", outcome |-> "none", after |-> "start",
          gate |-> "absent", read |-> FALSE, wrote |-> FALSE, entered |-> "",
          id |-> <<>>, form |-> <<>>, metrics |-> <<>>]

\* init_db: sales.csv with its header and no rows; an empty session state
InitCounter ==
    /\ sales = <<>>
    /\ wall = 0
    /\ password_correct = "absent"
    /\ dashboard_unlocked = "absent"
    /\ run = NoRun

\* ------------------------------------------------------------------ Init
\* init_db: both files are created with their header and no rows
Init ==
    /\ employees = <<>>
    /\ dtr = <<>>
    /\ last = NoLast
    /\ calc = NoCalc
    /\ sess = [s \in Sessions |-> IdleSession]
    /\ InitTrackers
    /\ InitCounter
    /\ program = "clocky"

\* ------------------------------------------------------------ employees
\* emp.py add_emp, Save Employee: the handler
AddEmployee(name, card) ==
    /\ LET emp_df == EmpRewrite(employees)
           new_id == FormatId(Len(emp_df) + 1)
           new_data == [Employee_ID |-> new_id, Name |-> name,
                        Hourly_Rate |-> card.Hourly_Rate, OT_Rate |-> card.OT_Rate,
                        Holiday_Rate |-> card.Holiday_Rate]
       IN  employees' = Append(emp_df, new_data)
    /\ last' = [NoLast EXCEPT !.op = "SaveEmployee", !.outcome = "saved"]
    /\ UNCHANGED <<dtr, calc, sess, outside>>

\* emp.py add_emp, Save Employee, while the table is below the model's bound
SaveEmployee(name, card) ==
    /\ Len(employees) < MaxEmployees
    /\ AddEmployee(name, card)

\* -------------------------------------------------------------- Log Time
\* emp.py dtr_form, Log Time
EmpLogTime(i, d, t_in, t_out, hol) ==
    /\ employees # <<>>
    /\ i \in 1..Len(employees)
    /\ Len(dtr) < MaxRows
    /\ LET e == employees[i]
           h == HoursSplit("emp", t_in, t_out)
           dtr_entry == NewRow(d, e.Employee_ID, EmpSelName(e), t_in, t_out, h, hol)
       IN  /\ dtr' = Append(EmpRewrite(dtr), dtr_entry)
           /\ last' = [NoLast EXCEPT !.op = "LogTime", !.form = "emp",
                                     !.outcome = "logged", !.row = <<dtr_entry>>]
    /\ UNCHANGED <<employees, calc, sess, outside>>

\* moon.py Staff Timekeeping dtr_form, Log Time
StaffLogTime(i, d, t_in, t_out, hol) ==
    /\ employees # <<>>
    /\ i \in 1..Len(employees)
    /\ Len(dtr) < MaxRows
    /\ LET e == employees[i]
           h == HoursSplit("staff", t_in, t_out)
           dtr_entry == NewRow(d, e.Employee_ID, MoonSelName(e), t_in, t_out, h, hol)
       IN  /\ dtr' = Append(MoonRewrite(dtr), dtr_entry)
           /\ last' = [NoLast EXCEPT !.op = "LogTime", !.form = "staff",
                                     !.outcome = "logged", !.row = <<dtr_entry>>]
    /\ UNCHANGED <<employees, calc, sess, outside>>

\* moon.py admin_dtr_form, Check Dupes: a row of the same employee and date exists
AdminIsDuplicate(table, id, d) ==
    \E k \in 1..Len(table) : table[k].Employee_ID = id /\ table[k].Date = d

\* moon.py admin_dtr_form, Log Time.  A duplicate is refused.  Otherwise the
\* hours are computed and pd.data_editor(...) raises AttributeError (pandas has
\* no data_editor), before save_csv: the run ends and nothing is written.
AdminLogTime(i, d, t_in, t_out, hol) ==
    /\ employees # <<>>
    /\ i \in 1..Len(employees)
    /\ LET e == employees[i]
           h == HoursSplit("admin", t_in, t_out)
           new_log == NewRow(d, e.Employee_ID, MoonSelName(e), t_in, t_out, h, hol)
       IN  IF AdminIsDuplicate(dtr, e.Employee_ID, d)
           THEN last' = [NoLast EXCEPT !.op = "LogTime", !.form = "admin",
                                       !.outcome = "duplicate", !.row = <<new_log>>]
           ELSE last' = [NoLast EXCEPT !.op = "LogTime", !.form = "admin",
                                       !.outcome = "error", !.row = <<new_log>>]
    /\ UNCHANGED <<employees, dtr, calc, sess, outside>>

\* ----------------------------------------------------------- bulk editor
\* the orders sort_values("Date", ascending=False) may give: the sort is not
\* stable, rows of one date come in any order
DescByDate(table) ==
    LET n == Len(table)
        perms == {p \in [1..n -> 1..n] : \A a, b \in 1..n : a # b => p[a] # p[b]}
    IN  {[k \in 1..n |-> table[p[k]]] : p \in
            {q \in perms : \A a, b \in 1..n : a < b => table[q[a]].Date >= table[q[b]].Date}}

RemoveAt(table, i) ==
    [k \in 1..(Len(table) - 1) |-> IF k < i THEN table[k] ELSE table[k + 1]]

\* what the user does in st.data_editor(..., num_rows="dynamic") before saving
Edits == {"none", "name", "delete"}

\* the text EMP-999 typed into an Employee_ID cell: the id of no employee
EditedId == FormatId(999)

\* the number 4.0 typed into a Reg_Hours cell, and the time 12:00 typed into
\* a Time_Out cell
EditedHours == 4 * MinutesPerHour
EditedTimeOut == 12 * MinutesPerHour

ApplyEdit(shown, kind, i, name) ==
    CASE kind = "none" -> shown
      [] kind = "name" -> [shown EXCEPT ![i].Name = name]
      [] kind = "delete" -> RemoveAt(shown, i)
      [] kind = "id" -> [shown EXCEPT ![i].Employee_ID = EditedId]
      [] kind = "hours" -> [shown EXCEPT ![i].Reg_Hours = EditedHours]
      [] kind = "out" -> [shown EXCEPT ![i].Time_Out = EditedTimeOut]

\* emp.py dtr_editor, Save Changes to Logs
EmpSaveLogs(kind, i, name) ==
    /\ employees # <<>>
    /\ dtr # <<>>
    /\ i \in 1..Len(dtr)
    /\ \E dtr_sorted \in DescByDate(EmpRewrite(dtr)) :
          dtr' = ApplyEdit(dtr_sorted, kind, i, name)
    /\ last' = [NoLast EXCEPT !.op = "SaveLogs", !.form = "emp", !.outcome = kind]
    /\ UNCHANGED <<employees, calc, sess, outside>>

\* moon.py admin tab_dtr, Save Logs
MoonSaveLogs(kind, i, name) ==
    /\ employees # <<>>
    /\ dtr # <<>>
    /\ i \in 1..Len(dtr)
    /\ \E dtr_sorted \in DescByDate(MoonRewrite(dtr)) :
          dtr' = ApplyEdit(dtr_sorted, kind, i, name)
    /\ last' = [NoLast EXCEPT !.op = "SaveLogs", !.form = "admin", !.outcome = kind]
    /\ UNCHANGED <<employees, calc, sess, outside>>

\* ---------------------------------------------------- payroll generation
\* a float column cell: a number or NaN
Num(n) == [nan |-> FALSE, v |-> n]
NaN == [nan |-> TRUE, v |-> 0]
Mul(a, b) == IF a.nan \/ b.nan THEN NaN ELSE Num(a.v * b.v)
Add(a, b) == IF a.nan \/ b.nan THEN NaN ELSE Num(a.v + b.v)
Sub(a, b) == IF a.nan \/ b.nan THEN NaN ELSE Num(a.v - b.v)

\* mask = (Date >= start) & (Date <= end)
InPeriodBug(d, start, end) == d > start /\ d <= end
InPeriodEither(d, start, end) == d >= start \/ d <= end
InPeriod(d, start, end) == d >= start /\ d <= end

\* dtr_df.loc[mask]
Period(table, start, end) ==
    SelectSeq(table, LAMBDA r : InPeriod(r.Date, start, end))

\* `if x["Is_Holiday"]` in emp.py: read_csv parses the column as bool
EmpTruthy(txt) == txt = "True"

\* `if x["Is_Holiday"]` in moon.py: dtype=str keeps the text, and a non-empty text is true
MoonTruthy(txt) == txt # ""

\* emp.py load_csv("dtr") as the payroll code sees it: Name a text or NaN,
\* Is_Holiday a bool, of which Holiday is the truth value
EmpLoadDtr(table) ==
    [k \in 1..Len(table) |->
        [Date |-> table[k].Date, Employee_ID |-> table[k].Employee_ID,
         Name |-> EmpReadText(table[k].Name),
         Reg_Hours |-> Num(table[k].Reg_Hours), OT_Hours |-> Num(table[k].OT_Hours),
         Is_Holiday |-> table[k].Is_Holiday, Holiday |-> EmpTruthy(table[k].Is_Holiday)]]

\* moon.py load_csv("dtr") and the to_numeric conversions: Name a text (never
\* NaN), Is_Holiday a text, of which Holiday is the truth value
MoonLoadDtr(table) ==
    [k \in 1..Len(table) |->
        [Date |-> table[k].Date, Employee_ID |-> table[k].Employee_ID,
         Name |-> [nan |-> FALSE, s |-> MoonReadText(table[k].Name)],
         Reg_Hours |-> Num(table[k].Reg_Hours), OT_Hours |-> Num(table[k].OT_Hours),
         Is_Holiday |-> table[k].Is_Holiday, Holiday |-> MoonTruthy(table[k].Is_Holiday)]]

\* one row of pd.merge(period, emp_df, on="Employee_ID", how="left")
Joined(r, rates) ==
    [Date |-> r.Date, Employee_ID |-> r.Employee_ID, Name |-> r.Name,
     Reg_Hours |-> r.Reg_Hours, OT_Hours |-> r.OT_Hours,
     Is_Holiday |-> r.Is_Holiday, Holiday |-> r.Holiday,
     Hourly_Rate |-> rates[1], OT_Rate |-> rates[2], Holiday_Rate |-> rates[3]]

RECURSIVE MatchesOf(_, _)
\* the employee rows with the given Employee_ID, in table order
MatchesOf(emp_df, id) ==
    IF emp_df = <<>> THEN <<>>
    ELSE (IF Head(emp_df).Employee_ID = id THEN <<Head(emp_df)>> ELSE <<>>)
         \o MatchesOf(Tail(emp_df), id)

RECURSIVE MergeLeft(_, _)
\* a left merge: one row per matching employee, or one row of NaN rates for none
MergeLeft(period, emp_df) ==
    IF period = <<>> THEN <<>>
    ELSE LET r == Head(period)
             ms == MatchesOf(emp_df, r.Employee_ID)
             rows == IF ms = <<>>
                     THEN <<Joined(r, <<NaN, NaN, NaN>>)>>
                     ELSE [k \in 1..Len(ms) |->
                             Joined(r, <<Num(ms[k].Hourly_Rate), Num(ms[k].OT_Rate),
                                         Num(ms[k].Holiday_Rate)>>)]
         IN  rows \o MergeLeft(Tail(period), emp_df)

\* Base_Pay = Reg_Hours * Hourly_Rate
BasePay(x) == Mul(Mul(x.Reg_Hours, x.Hourly_Rate), Num(RateUnit))

\* OT_Pay = OT_Hours * Hourly_Rate * OT_Rate
OtPay(x) == Mul(Mul(x.OT_Hours, x.Hourly_Rate), x.OT_Rate)

\* (Reg_Hours * Hourly_Rate * (Holiday_Rate - 1.0)) if Is_Holiday else 0
HolidayPremium(x) ==
    IF x.Holiday
    THEN Mul(Mul(x.Reg_Hours, x.Hourly_Rate), Sub(x.Holiday_Rate, Num(RateUnit)))
    ELSE Num(0)

\* Total_Daily_Pay = Base_Pay + OT_Pay + Holiday_Premium
TotalPay(x) == Add(Add(BasePay(x), OtPay(x)), HolidayPremium(x))

\* the merged frame with its four computed columns
WithPay(merged) ==
    [k \in 1..Len(merged) |->
        [Date |-> merged[k].Date, Employee_ID |-> merged[k].Employee_ID,
         Name |-> merged[k].Name, Is_Holiday |-> merged[k].Is_Holiday,
         Reg_Hours |-> merged[k].Reg_Hours, OT_Hours |-> merged[k].OT_Hours,
         Hourly_Rate |-> merged[k].Hourly_Rate, OT_Rate |-> merged[k].OT_Rate,
         Holiday_Rate |-> merged[k].Holiday_Rate,
         Base_Pay |-> BasePay(merged[k]), OT_Pay |-> OtPay(merged[k]),
         Holiday_Premium |-> HolidayPremium(merged[k]), Total |-> TotalPay(merged[k])]]

RECURSIVE SumSkipNa(_)
\* the 'sum' aggregation: NaN cells are skipped
SumSkipNa(cells) ==
    IF cells = <<>> THEN 0
    ELSE (IF Head(cells).nan THEN 0 ELSE Head(cells).v) + SumSkipNa(Tail(cells))

\* the group keys of groupby(["Employee_ID", "Name"]): rows with a NaN key are dropped
GroupKeys(frame) ==
    {<<frame[k].Employee_ID, frame[k].Name.s>> : k \in {j \in 1..Len(frame) : ~frame[j].Name.nan}}

GroupOf(frame, key) ==
    SelectSeq(frame, LAMBDA x : ~x.Name.nan /\ x.Employee_ID = key[1] /\ x.Name.s = key[2])

\* one column of a frame
RegHoursCol(g) == [k \in 1..Len(g) |-> g[k].Reg_Hours]
OtHoursCol(g) == [k \in 1..Len(g) |-> g[k].OT_Hours]
BasePayCol(g) == [k \in 1..Len(g) |-> g[k].Base_Pay]
OtPayCol(g) == [k \in 1..Len(g) |-> g[k].OT_Pay]
PremiumCol(g) == [k \in 1..Len(g) |-> g[k].Holiday_Premium]
TotalCol(g) == [k \in 1..Len(g) |-> g[k].Total]

\* emp.py: merged.groupby(["Employee_ID", "Name"]).agg(...).reset_index().  The
\* frame comes out sorted by key, so the set of its rows determines it.
EmpSummary(frame) ==
    {LET g == GroupOf(frame, key)
     IN  [Employee_ID |-> key[1], Name |-> key[2],
          Total_Reg_Hours |-> SumSkipNa(RegHoursCol(g)),
          Total_OT_Hours |-> SumSkipNa(OtHoursCol(g)),
          Total_Base_Pay |-> SumSkipNa(BasePayCol(g)),
          Total_OT_Pay |-> SumSkipNa(OtPayCol(g)),
          Total_Hol_Pay |-> SumSkipNa(PremiumCol(g)),
          Grand_Total |-> SumSkipNa(TotalCol(g))]
     : key \in GroupKeys(frame)}

\* moon.py: merged.groupby(["Employee_ID", "Name"]).agg(Reg_Hrs, OT_Hrs, Net_Pay)
MoonSummary(frame) ==
    {LET g == GroupOf(frame, key)
     IN  [Employee_ID |-> key[1], Name |-> key[2],
          Reg_Hrs |-> SumSkipNa(RegHoursCol(g)),
          OT_Hrs |-> SumSkipNa(OtHoursCol(g)),
          Net_Pay |-> SumSkipNa(TotalCol(g))]
     : key \in GroupKeys(frame)}

\* a generation that also writes the period's rows back as the DTR table
EmpGenerateSaving(start, end) ==
    /\ dtr' = SelectSeq(dtr, LAMBDA r : InPeriod(r.Date, start, end))
    /\ last' = [NoLast EXCEPT !.op = "Generate", !.form = "emp", !.outcome = "no_logs",
                              !.start = start, !.end = end]
    /\ UNCHANGED <<employees, calc, sess, outside>>

\* emp.py tab_pay, Generate Payroll Summary
EmpGenerate(start, end) ==
    /\ LET period_dtr == Period(EmpLoadDtr(dtr), start, end)
           merged == WithPay(MergeLeft(period_dtr, employees))
       IN  IF period_dtr = <<>>
           THEN last' = [NoLast EXCEPT !.op = "Generate", !.form = "emp",
                                       !.outcome = "no_logs", !.start = start, !.end = end]
           ELSE last' = [NoLast EXCEPT !.op = "Generate", !.form = "emp",
                                       !.outcome = "summary", !.start = start, !.end = end,
                                       !.merged = merged, !.summary = EmpSummary(merged)]
    /\ UNCHANGED <<employees, dtr, calc, sess, outside>>

\* moon.py admin tab_pay, Generate
MoonGenerate(start, end) ==
    /\ LET period == Period(MoonLoadDtr(dtr), start, end)
           merged == WithPay(MergeLeft(period, employees))
       IN  IF period = <<>>
           THEN last' = [NoLast EXCEPT !.op = "Generate", !.form = "admin",
                                       !.outcome = "no_logs", !.start = start, !.end = end]
           ELSE last' = [NoLast EXCEPT !.op = "Generate", !.form = "admin",
                                       !.outcome = "summary", !.start = start, !.end = end,
                                       !.merged = merged, !.summary = MoonSummary(merged)]
    /\ UNCHANGED <<employees, dtr, calc, sess, outside>>

\* ------------------------------------------------------------------ Next
SaveEmployeeStep == \E n \in EmployeeNames, c \in RateCards : SaveEmployee(n, c)
EmpLogTimeStep ==
    \E i \in 1..MaxEmployees, d \in Dates, sh \in FormShifts :
       EmpLogTime(i, d, sh[1], sh[2], sh[3])
StaffLogTimeStep ==
    \E i \in 1..MaxEmployees, d \in Dates, sh \in FormShifts :
       StaffLogTime(i, d, sh[1], sh[2], sh[3])
AdminLogTimeStep ==
    \E i \in 1..MaxEmployees, d \in Dates, sh \in FormShifts :
       AdminLogTime(i, d, sh[1], sh[2], sh[3])
EmpSaveLogsStep ==
    \E kind \in Edits, i \in 1..MaxRows, n \in EditNames : EmpSaveLogs(kind, i, n)
MoonSaveLogsStep ==
    \E kind \in Edits, i \in 1..MaxRows, n \in EditNames : MoonSaveLogs(kind, i, n)
EmpGenerateStep == \E s \in Dates, e \in Dates : EmpGenerate(s, e)
MoonGenerateStep == \E s \in Dates, e \in Dates : MoonGenerate(s, e)

Next ==
    \/ SaveEmployeeStep
    \/ EmpLogTimeStep
    \/ StaffLogTimeStep
    \/ AdminLogTimeStep
    \/ EmpSaveLogsStep
    \/ MoonSaveLogsStep
    \/ EmpGenerateStep
    \/ MoonGenerateStep

Spec == Init /\ [][Next]_vars

\* ------------------------- SpecCore: the same handlers on a narrow input set
\* one employee name, the shift 08:00-17:00, and an editor that only deletes
CoreNames == {"Ana"}
CoreShifts == {<<8 * MinutesPerHour, 17 * MinutesPerHour, FALSE>>}
CoreEdits == {"none", "delete"}

CoreSaveEmployee == \E n \in CoreNames, c \in RateCards : SaveEmployee(n, c)
CoreEmpLogTime ==
    \E i \in 1..MaxEmployees, d \in Dates, sh \in CoreShifts :
       EmpLogTime(i, d, sh[1], sh[2], sh[3])
CoreStaffLogTime ==
    \E i \in 1..MaxEmployees, d \in Dates, sh \in CoreShifts :
       StaffLogTime(i, d, sh[1], sh[2], sh[3])
CoreAdminLogTime ==
    \E i \in 1..MaxEmployees, d \in Dates, sh \in CoreShifts :
       AdminLogTime(i, d, sh[1], sh[2], sh[3])
CoreEmpSaveLogs ==
    \E kind \in CoreEdits, i \in 1..MaxRows, n \in CoreNames : EmpSaveLogs(kind, i, n)
CoreMoonSaveLogs ==
    \E kind \in CoreEdits, i \in 1..MaxRows, n \in CoreNames : MoonSaveLogs(kind, i, n)
CoreEmpGenerate == \E s \in Dates, e \in Dates : EmpGenerate(s, e)
CoreMoonGenerate == \E s \in Dates, e \in Dates : MoonGenerate(s, e)

NextCore ==
    \/ CoreSaveEmployee
    \/ CoreEmpLogTime
    \/ CoreStaffLogTime
    \/ CoreAdminLogTime
    \/ CoreEmpSaveLogs
    \/ CoreMoonSaveLogs
    \/ CoreEmpGenerate
    \/ CoreMoonGenerate

SpecCore == Init /\ [][NextCore]_vars

\* ------------- SpecOrphan: entries whose Employee_ID is edited to an unknown id
OrphanEdits == {"none", "id"}
OrphanShifts == {<<8 * MinutesPerHour, 20 * MinutesPerHour, TRUE>>}

OrphanSaveEmployee == \E n \in EmployeeNames, c \in RateCards : SaveEmployee(n, c)
OrphanEmpLogTime ==
    \E i \in 1..MaxEmployees, d \in Dates, sh \in OrphanShifts :
       EmpLogTime(i, d, sh[1], sh[2], sh[3])
OrphanStaffLogTime ==
    \E i \in 1..MaxEmployees, d \in Dates, sh \in OrphanShifts :
       StaffLogTime(i, d, sh[1], sh[2], sh[3])
OrphanEmpSaveLogs ==
    \E kind \in OrphanEdits, i \in 1..MaxRows, n \in EditNames : EmpSaveLogs(kind, i, n)
OrphanMoonSaveLogs ==
    \E kind \in OrphanEdits, i \in 1..MaxRows, n \in EditNames : MoonSaveLogs(kind, i, n)
OrphanEmpGenerate == \E s \in Dates, e \in Dates : EmpGenerate(s, e)
OrphanMoonGenerate == \E s \in Dates, e \in Dates : MoonGenerate(s, e)

NextOrphan ==
    \/ OrphanSaveEmployee
    \/ OrphanEmpLogTime
    \/ OrphanStaffLogTime
    \/ OrphanEmpSaveLogs
    \/ OrphanMoonSaveLogs
    \/ OrphanEmpGenerate
    \/ OrphanMoonGenerate

SpecOrphan == Init /\ [][NextOrphan]_vars

\* ------- SpecEdits: Log Time and editor saves that change an hours or a time cell
HourEdits == {"none", "hours", "out"}

EditsSaveEmployee == \E n \in CoreNames, c \in RateCards : SaveEmployee(n, c)
EditsEmpLogTime ==
    \E i \in 1..MaxEmployees, d \in Dates, sh \in FormShifts :
       EmpLogTime(i, d, sh[1], sh[2], sh[3])
EditsStaffLogTime ==
    \E i \in 1..MaxEmployees, d \in Dates, sh \in FormShifts :
       StaffLogTime(i, d, sh[1], sh[2], sh[3])
EditsEmpSaveLogs ==
    \E kind \in HourEdits, i \in 1..MaxRows, n \in CoreNames : EmpSaveLogs(kind, i, n)
EditsMoonSaveLogs ==
    \E kind \in HourEdits, i \in 1..MaxRows, n \in CoreNames : MoonSaveLogs(kind, i, n)

NextEdits ==
    \/ EditsSaveEmployee
    \/ EditsEmpLogTime
    \/ EditsStaffLogTime
    \/ EditsEmpSaveLogs
    \/ EditsMoonSaveLogs

SpecEdits == Init /\ [][NextEdits]_vars

\* --------------------- SpecRoster: Save Employee alone, one run after another
RosterSaveEmployee ==
    \E n \in EmployeeNames, c \in RateCards :
       /\ Len(employees) < MaxRoster
       /\ AddEmployee(n, c)

NextRoster == RosterSaveEmployee

SpecRoster == Init /\ [][NextRoster]_vars

\* ---------- two sessions of emp.py, load and save as separate steps
\* Each handler reads the whole file (load_csv), builds the new table in
\* memory and writes the whole file (save_csv).  Streamlit runs each session's
\* script in its own thread and nothing locks the file, so the steps of two
\* sessions interleave.
SessionNames == {"Ana", "Ben"}
SessionEdits == {"none", "delete"}

\* Save Employee up to save_csv: emp_df = load_csv("employees"), new_id, new_data
SessionLoadEmployees(s, name, card) ==
    /\ sess[s].pc = "idle"
    /\ Len(employees) < MaxEmployees
    /\ LET emp_df == EmpRewrite(employees)
           new_id == FormatId(Len(emp_df) + 1)
           new_data == [Employee_ID |-> new_id, Name |-> name,
                        Hourly_Rate |-> card.Hourly_Rate, OT_Rate |-> card.OT_Rate,
                        Holiday_Rate |-> card.Holiday_Rate]
       IN  sess' = [sess EXCEPT ![s] = [pc |-> "loaded", op |-> "SaveEmployee",
                                        snap |-> emp_df, row |-> <<new_data>>,
                                        edit |-> "none"]]
    /\ UNCHANGED <<employees, dtr, last, calc, outside>>

\* a save that reads the file again just before it writes
SessionWriteEmployeesFresh(s) ==
    /\ sess[s].pc = "loaded"
    /\ sess[s].op = "SaveEmployee"
    /\ employees' = EmpRewrite(employees) \o sess[s].row
    /\ sess' = [sess EXCEPT ![s].pc = "saved"]
    /\ UNCHANGED <<dtr, last, calc, outside>>

\* Save Employee: save_csv("employees", pd.concat([emp_df, new_data]))
SessionWriteEmployees(s) ==
    /\ sess[s].pc = "loaded"
    /\ sess[s].op = "SaveEmployee"
    /\ employees' = sess[s].snap \o sess[s].row
    /\ sess' = [sess EXCEPT ![s].pc = "saved"]
    /\ UNCHANGED <<dtr, last, calc, outside>>

\* Log Time up to save_csv: dtr_entry and load_csv("dtr")
SessionLoadDtr(s, i, d, t_in, t_out, hol) ==
    /\ sess[s].pc = "idle"
    /\ employees # <<>>
    /\ i \in 1..Len(employees)
    /\ Len(dtr) < MaxRows
    /\ LET e == employees[i]
           h == HoursSplit("emp", t_in, t_out)
           dtr_entry == NewRow(d, e.Employee_ID, EmpSelName(e), t_in, t_out, h, hol)
       IN  sess' = [sess EXCEPT ![s] = [pc |-> "loaded", op |-> "LogTime",
                                        snap |-> EmpRewrite(dtr), row |-> <<dtr_entry>>,
                                        edit |-> "none"]]
    /\ UNCHANGED <<employees, dtr, last, calc, outside>>

\* a save that reads the file again just before it writes
SessionWriteDtrFresh(s) ==
    /\ sess[s].pc = "loaded"
    /\ sess[s].op = "LogTime"
    /\ dtr' = EmpRewrite(dtr) \o sess[s].row
    /\ sess' = [sess EXCEPT ![s].pc = "saved"]
    /\ UNCHANGED <<employees, last, calc, outside>>

\* Log Time: save_csv("dtr", pd.concat([<the table loaded>, dtr_entry]))
SessionWriteDtr(s) ==
    /\ sess[s].pc = "loaded"
    /\ sess[s].op = "LogTime"
    /\ dtr' = sess[s].snap \o sess[s].row
    /\ sess' = [sess EXCEPT ![s].pc = "saved"]
    /\ UNCHANGED <<employees, last, calc, outside>>

\* the run in which Save Changes to Logs was clicked, up to the editor:
\* dtr_df = load_csv("dtr"), shown when it is not empty
SessionLoadEditor(s) ==
    /\ sess[s].pc = "idle"
    /\ employees # <<>>
    /\ dtr # <<>>
    /\ sess' = [sess EXCEPT ![s] = [pc |-> "loaded", op |-> "SaveLogs",
                                    snap |-> EmpRewrite(dtr), row |-> <<>>,
                                    edit |-> "none"]]
    /\ UNCHANGED <<employees, dtr, last, calc, outside>>

\* Save Changes to Logs: save_csv("dtr", edited_dtr), the sorted table with the edit
SessionWriteEditor(s, kind, i) ==
    /\ sess[s].pc = "loaded"
    /\ sess[s].op = "SaveLogs"
    /\ i \in 1..Len(sess[s].snap)
    /\ \E dtr_sorted \in DescByDate(sess[s].snap) :
          dtr' = ApplyEdit(dtr_sorted, kind, i, "")
    /\ sess' = [sess EXCEPT ![s].pc = "saved", ![s].edit = kind]
    /\ UNCHANGED <<employees, last, calc, outside>>

\* st.rerun() or the end of the run: the session is idle again
SessionEnd(s) ==
    /\ sess[s].pc = "saved"
    /\ sess' = [sess EXCEPT ![s] = IdleSession]
    /\ UNCHANGED <<employees, dtr, last, calc, outside>>

LoadEmployeesStep ==
    \E s \in Sessions, n \in SessionNames, c \in RateCards : SessionLoadEmployees(s, n, c)
WriteEmployeesStep == \E s \in Sessions : SessionWriteEmployees(s)
LoadDtrStep ==
    \E s \in Sessions, i \in 1..MaxEmployees, d \in Dates, sh \in CoreShifts :
       SessionLoadDtr(s, i, d, sh[1], sh[2], sh[3])
WriteDtrStep == \E s \in Sessions : SessionWriteDtr(s)
LoadEditorStep == \E s \in Sessions : SessionLoadEditor(s)
WriteEditorStep ==
    \E s \in Sessions, kind \in SessionEdits, i \in 1..MaxRows : SessionWriteEditor(s, kind, i)
EndStep == \E s \in Sessions : SessionEnd(s)

\* SpecHiring: two sessions on the employee table
NextHiring ==
    \/ LoadEmployeesStep
    \/ WriteEmployeesStep
    \/ EndStep

SpecHiring == Init /\ [][NextHiring]_vars

\* SpecLogs: two sessions on the DTR table, one employee being on file
InitLogs ==
    /\ employees = <<[Employee_ID |-> FormatId(1), Name |-> "Ana", Hourly_Rate |-> 100,
                      OT_Rate |-> 125, Holiday_Rate |-> 200]>>
    /\ dtr = <<>>
    /\ last = NoLast
    /\ calc = NoCalc
    /\ sess = [s \in Sessions |-> IdleSession]
    /\ InitTrackers
    /\ InitCounter
    /\ program = "clocky"

NextLogs ==
    \/ LoadDtrStep
    \/ WriteDtrStep
    \/ LoadEditorStep
    \/ WriteEditorStep
    \/ EndStep

SpecLogs == InitLogs /\ [][NextLogs]_vars

\* --------------------------------------------------------------- clocky.py
\* the wall clock moves on
Tick ==
    /\ now < MaxClock
    /\ now' = now + 1
    /\ UNCHANGED <<payroll, counter, program, desktop, web>>

\* start_timer, reached through toggle_timer while no timer runs
StartTimer(project, task) ==
    /\ program = "clocky"
    /\ ~timer_running
    /\ Len(tree) < MaxRecords
    /\ IF Strip(project) = <<>> \/ Strip(task) = <<>>
       THEN /\ did' = [NoDid EXCEPT !.op = "start", !.outcome = "missing"]
            /\ UNCHANGED <<timer_running, start_time, button>>
       ELSE /\ timer_running' = TRUE
            /\ start_time' = <<now>>
            /\ button' = "Stop"
            /\ did' = [NoDid EXCEPT !.op = "start", !.outcome = "started"]
    /\ UNCHANGED <<payroll, counter, program, now, tree, config, records_file, config_file, edit_wins, web>>

\* tree.insert(..., iid=f"row{idx}") raises TclError when the item exists
IidTaken(rows, idx) == \E k \in 1..Len(rows) : rows[k].iid = idx

\* add_record: the row shown in the tree, with the time part of start and end
\* and iid "row<number of rows>"
AddRecord(rows, record) ==
    Append(rows, [iid |-> Len(rows), project |-> record.project, task |-> record.task,
                  start |-> DisplayTime(record.start), end |-> DisplayTime(record.end),
                  duration |-> record.duration, billable |-> record.billable,
                  hours |-> record.hours, amount |-> record.amount])

\* save_records: one CSV row per tree row, in tree order; start and end are
\* those of the CSV row at the same position when the file has one, else the
\* texts shown in the tree
SaveRecords(rows, file) ==
    [idx \in 1..Len(rows) |->
        LET vals == rows[idx]
            from_file == file # <<>> /\ idx <= Len(file)
        IN  [project |-> vals.project, task |-> vals.task,
             start |-> IF from_file THEN file[idx].start ELSE vals.start,
             end |-> IF from_file THEN file[idx].end ELSE vals.end,
             duration |-> vals.duration, billable |-> vals.billable,
             hours |-> vals.hours, amount |-> vals.amount]]

\* stop_timer.  When add_record raises, Tk reports the exception and the
\* handler ends there: nothing is added or saved and the button keeps "Stop".
StopTimer(project, task, billable) ==
    /\ program = "clocky"
    /\ IF ~timer_running
       THEN UNCHANGED vars
       ELSE LET end_time == now
                duration == end_time - start_time[1]
                hours == HoursOf(duration)
                record == [project |-> Strip(project), task |-> Strip(task),
                           start |-> FullText(start_time[1]), end |-> FullText(end_time),
                           duration |-> duration, billable |-> BoolText(billable),
                           hours |-> hours, amount |-> AmountOf(hours, config, billable)]
            IN  /\ timer_running' = FALSE
                /\ IF IidTaken(tree, Len(tree))
                   THEN /\ did' = [NoDid EXCEPT !.op = "stop", !.outcome = "error",
                                                !.start = record.start, !.end = record.end]
                        /\ UNCHANGED <<tree, records_file, button>>
                   ELSE /\ tree' = AddRecord(tree, record)
                        /\ records_file' = SaveRecords(tree', records_file)
                        /\ button' = "Start"
                        /\ did' = [NoDid EXCEPT !.op = "stop", !.outcome = "recorded",
                                                !.pos = Len(tree'),
                                                !.start = record.start, !.end = record.end]
                /\ UNCHANGED <<payroll, counter, program, now, start_time, config, config_file, edit_wins, web>>

\* delete_selected, with the i-th row selected and the question answered yes
DeleteSelected(i) ==
    /\ program = "clocky"
    /\ i \in 1..Len(tree)
    /\ tree' = RemoveAt(tree, i)
    /\ records_file' = SaveRecords(tree', records_file)
    /\ did' = [NoDid EXCEPT !.op = "delete", !.outcome = "deleted", !.pos = i]
    /\ UNCHANGED <<payroll, counter, program, now, timer_running, start_time, button, config, config_file, edit_wins, web>>

\* datetime.strptime(text, "%Y-%m-%d %H:%M:%S") raises ValueError unless the
\* text has a date part and a time part
Parses(txt) == Len(txt) = 2

\* the position of the tree row with the item id, 0 when the tree has none
RowOf(rows, item_id) ==
    IF \E k \in 1..Len(rows) : rows[k].iid = item_id
    THEN CHOOSE k \in 1..Len(rows) : rows[k].iid = item_id
    ELSE 0

\* edit_selected with the i-th row selected: edit_record opens an "Edit
\* Record" window on the row's item id and returns to the event loop
EditSelected(i) ==
    /\ program = "clocky"
    /\ i \in 1..Len(tree)
    /\ Len(edit_wins) < MaxDialogs
    /\ edit_wins' = Append(edit_wins, tree[i].iid)
    /\ did' = [NoDid EXCEPT !.op = "edit_open", !.outcome = "opened", !.pos = i]
    /\ UNCHANGED <<payroll, counter, program, now, timer_running, start_time, button, tree,
                   config, records_file, config_file, web>>

\* the Save button of the w-th open window (edit_record.save), with the texts
\* in its Project, Task, Start and End entries and its Billable box.  A Start
\* or End text strptime rejects, or an item id the tree no longer has
\* (tree.item raises TclError), ends in the error box: nothing changes and the
\* window stays open.
EditSave(w, proj, task, start_e, end_e, bill) ==
    /\ program = "clocky"
    /\ w \in 1..Len(edit_wins)
    /\ LET item_id == edit_wins[w]
           i == RowOf(tree, item_id)
       IN  IF ~Parses(start_e) \/ ~Parses(end_e) \/ i = 0
           THEN /\ did' = [NoDid EXCEPT !.op = "edit", !.outcome = "error"]
                /\ UNCHANGED <<tree, records_file, edit_wins>>
           ELSE LET dur == Moment(end_e) - Moment(start_e)
                    hours == HoursOf(dur)
                IN  /\ tree' = [tree EXCEPT ![i] =
                                  [iid |-> @.iid, project |-> Strip(proj), task |-> Strip(task),
                                   start |-> <<start_e[2]>>, end |-> <<end_e[2]>>,
                                   duration |-> dur, billable |-> BoolText(bill),
                                   hours |-> hours, amount |-> AmountOf(hours, config, bill)]]
                    /\ records_file' = SaveRecords(tree', records_file)
                    /\ edit_wins' = RemoveAt(edit_wins, w)
                    /\ did' = [NoDid EXCEPT !.op = "edit", !.outcome = "saved", !.pos = i,
                                            !.start = start_e, !.end = end_e]
    /\ UNCHANGED <<payroll, counter, program, now, timer_running, start_time, button, config, config_file, web>>

\* set_hourly_rate with a value entered
SetHourlyRate(val) ==
    /\ program = "clocky"
    /\ config' = val
    /\ config_file' = <<val>>
    /\ did' = [NoDid EXCEPT !.op = "rate", !.outcome = "set"]
    /\ UNCHANGED <<payroll, counter, program, now, timer_running, start_time, button, tree, records_file, edit_wins, web>>

RECURSIVE LoadRecords(_, _)
\* load_records: add_record for each CSV row in turn
LoadRecords(rows, file) ==
    IF file = <<>> THEN rows ELSE LoadRecords(AddRecord(rows, Head(file)), Tail(file))

\* the window is closed and the program started again: __init__
Relaunch ==
    /\ program = "clocky"
    /\ config' = LoadConfig(config_file)
    /\ timer_running' = FALSE
    /\ start_time' = <<>>
    /\ button' = "Start"
    /\ tree' = LoadRecords(<<>>, records_file)
    /\ edit_wins' = <<>>
    /\ did' = NoDid
    /\ UNCHANGED <<payroll, counter, program, now, records_file, config_file, web>>

StartTimerStep == \E p \in Projects, t \in Tasks : StartTimer(p, t)
StopTimerStep == \E p \in Projects, t \in Tasks, b \in BOOLEAN : StopTimer(p, t, b)
DeleteSelectedStep == \E i \in 1..MaxRecords : DeleteSelected(i)
EditSelectedStep == \E i \in 1..MaxRecords : EditSelected(i)
EditSaveStep ==
    \E w \in 1..MaxDialogs, x \in EditEntries :
       EditSave(w, x.proj, x.task, x.start_e, x.end_e, x.bill)
SetHourlyRateStep == \E val \in Rates : SetHourlyRate(val)

NextClocky ==
    \/ Tick
    \/ StartTimerStep
    \/ StopTimerStep
    \/ DeleteSelectedStep
    \/ EditSelectedStep
    \/ EditSaveStep
    \/ SetHourlyRateStep
    \/ Relaunch

SpecClocky == Init /\ [][NextClocky]_vars

\* -------------------------------------------------------- online_clocky.py
\* the Start Timer button, shown while no timer runs:
\* if st.session_state.project and st.session_state.task (a text is true
\* unless it is empty)
OnlineStart(project, task) ==
    /\ program = "online_clocky"
    /\ ~(online_running /\ online_start # <<>>)
    /\ Len(online_records) < MaxRecords
    /\ IF project # <<>> /\ task # <<>>
       THEN /\ online_running' = TRUE
            /\ online_start' = <<now>>
       ELSE UNCHANGED <<online_running, online_start>>
    /\ UNCHANGED <<payroll, counter, program, now, desktop, online_records, online_config>>

\* the Stop Timer button: stop_timer() with cfg = load_config() of this run
OnlineStop(project, task, billable) ==
    /\ program = "online_clocky"
    /\ online_running
    /\ online_start # <<>>
    /\ LET cfg == LoadConfig(online_config)
           start == online_start[1]
           end == now
           duration == end - start
           hours == HoursOf(duration)
           rec == [project |-> Strip(project), task |-> Strip(task),
                   start |-> FullText(start), end |-> FullText(end),
                   duration |-> duration, billable |-> BoolText(billable),
                   hours |-> hours, amount |-> AmountOf(hours, cfg, billable)]
       IN  online_records' = Append(online_records, rec)
    /\ online_running' = FALSE
    /\ online_start' = <<>>
    /\ UNCHANGED <<payroll, counter, program, now, desktop, online_config>>

\* the "Set hourly rate" number input holding a value other than cfg's
OnlineSetRate(new_rate) ==
    /\ program = "online_clocky"
    /\ new_rate # LoadConfig(online_config)
    /\ online_config' = <<new_rate>>
    /\ UNCHANGED <<payroll, counter, program, now, desktop, online_running, online_start, online_records>>

\* the amount 1.00 typed into an amount cell of the records table
EditedAmount == 100

\* a row added at the end of the records table with every cell typed
TypedRecord ==
    [project |-> <<"D", "r", "y">>, task |-> <<"F", "o", "l", "d">>,
     start |-> FullText(0), end |-> FullText(1), duration |-> 1,
     billable |-> "True", hours |-> HoursOf(1), amount |-> EditedAmount]

\* what is done in the "Recorded Tasks" table before Save Table Edits:
\* nothing, a row deleted, an amount typed, a row added
TableEdits == {"none", "delete", "amount", "add"}

\* "Save Table Edits": df = load_records(), edited = st.data_editor(df,
\* num_rows="dynamic"), hours and amount made numbers (they are numbers
\* already), save_records(edited)
OnlineSaveTable(kind, i) ==
    /\ program = "online_clocky"
    /\ CASE kind = "none" ->
              online_records' = online_records
         [] kind = "delete" ->
              /\ i \in 1..Len(online_records)
              /\ online_records' = RemoveAt(online_records, i)
         [] kind = "amount" ->
              /\ i \in 1..Len(online_records)
              /\ online_records' = [online_records EXCEPT ![i].amount = EditedAmount]
         [] kind = "add" ->
              /\ Len(online_records) < MaxRecords
              /\ online_records' = Append(online_records, TypedRecord)
    /\ UNCHANGED <<payroll, counter, program, now, desktop, online_running, online_start, online_config>>

OnlineStartStep == \E p \in Projects, t \in Tasks : OnlineStart(p, t)
OnlineSaveTableStep == \E kind \in TableEdits, i \in 1..MaxRecords : OnlineSaveTable(kind, i)
OnlineStopStep == \E p \in Projects, t \in Tasks, b \in BOOLEAN : OnlineStop(p, t, b)
OnlineSetRateStep == \E val \in Rates : OnlineSetRate(val)

\* SpecRates: a run of either tracker with every handler of its records and
\* its rate
InitRates ==
    /\ employees = <<>>
    /\ dtr = <<>>
    /\ last = NoLast
    /\ calc = NoCalc
    /\ sess = [s \in Sessions |-> IdleSession]
    /\ InitTrackers
    /\ InitCounter
    /\ program \in Programs

NextRates ==
    \/ Tick
    \/ StartTimerStep
    \/ StopTimerStep
    \/ DeleteSelectedStep
    \/ EditSelectedStep
    \/ EditSaveStep
    \/ SetHourlyRateStep
    \/ Relaunch
    \/ OnlineStartStep
    \/ OnlineStopStep
    \/ OnlineSetRateStep
    \/ OnlineSaveTableStep

SpecRates == InitRates /\ [][NextRates]_vars

\* ------------------------------------------- app.py and moon.py: the counter
\* the wall clock at the counter moves on by half a second
WallTick ==
    /\ wall < MaxWall
    /\ wall' = wall + 1
    /\ UNCHANGED <<backoffice, sales, password_correct, dashboard_unlocked, run>>

\* a check that lets a session through before any password was entered
CheckPasswordLax(flag) == flag # "False"

\* check_password(): true only when the key is in the session state and true
CheckPassword(flag) == flag = "True"

RECURSIVE UnpaidTotal(_)
\* sales_df[sales_df["Payment_Status"] == "Unpaid"]["Amount"].sum()
UnpaidTotal(table) ==
    IF table = <<>> THEN 0
    ELSE (IF Head(table).Payment_Status = "Unpaid" THEN Head(table).Amount ELSE 0)
         + UnpaidTotal(Tail(table))

\* len(sales_df[sales_df["Work_Status"] == "WIP"])
WipJobs(table) == Len(SelectSeq(table, LAMBDA r : r.Work_Status = "WIP"))

\* the metrics of the unlocked Dashboard, or none for a table without rows
Metrics(table) ==
    IF table = <<>> THEN <<>>
    ELSE <<[unpaid |-> UnpaidTotal(table), wip |-> WipJobs(table)]>>

\* dashboard_unlocked after a run of the Dashboard page that finds it as flag:
\* an absent key is set to False; locked, Unlock Dashboard with the owner
\* password sets True; unlocked, Lock Dashboard sets False
DashboardFlag(flag, click, admin_input) ==
    LET unlocked == IF flag = "absent" THEN "False" ELSE flag
    IN  IF unlocked # "True"
        THEN (IF click = "unlock" /\ admin_input = DASHBOARD_PASSWORD THEN "True" ELSE "False")
        ELSE (IF click = "lock" THEN "False" ELSE "True")

\* the Dashboard page up to the end of the run, st.rerun() included: the
\* metrics are loaded and shown only on the unlocked page
DashboardPage(op, gate, click, entered) ==
    LET after == DashboardFlag(dashboard_unlocked, click, entered)
    IN  /\ dashboard_unlocked' = after
        /\ run' = [NoRun EXCEPT
                     !.prog = "app", !.op = op, !.after = run.op, !.gate = gate,
                     !.entered = entered,
                     !.outcome = IF after = "True" THEN "metrics"
                                 ELSE IF click = "unlock" THEN "denied" ELSE "locked",
                     !.read = (after = "True"),
                     !.metrics = IF after = "True" THEN Metrics(LoadRewrite(sales)) ELSE <<>>]

\* app.py: a text entered in "Enter Shop Password" (password_entered), and the
\* run that follows it: the login screen again, or the Dashboard, the page the
\* menu shows first
AppEnterPassword(pw) ==
    /\ ~CheckPassword(password_correct)
    /\ LET flag == IF pw = ACCESS_PASSWORD THEN "True" ELSE "False"
       IN  /\ password_correct' = flag
           /\ IF CheckPassword(flag)
              THEN DashboardPage("login", flag, "view", pw)
              ELSE /\ run' = [NoRun EXCEPT !.prog = "app", !.op = "login",
                                           !.after = run.op, !.gate = flag,
                                           !.entered = pw, !.outcome = "denied"]
                   /\ UNCHANGED dashboard_unlocked
    /\ UNCHANGED <<backoffice, sales, wall>>

\* a Log Out that clears both flags
AppLogOutAll ==
    /\ CheckPassword(password_correct)
    /\ password_correct' = "False"
    /\ dashboard_unlocked' = "False"
    /\ run' = [NoRun EXCEPT !.prog = "app", !.op = "logout", !.after = run.op,
                            !.gate = password_correct, !.outcome = "login_screen"]
    /\ UNCHANGED <<backoffice, sales, wall>>

\* app.py: the Log Out button, and the login screen of the run that follows
AppLogOut ==
    /\ CheckPassword(password_correct)
    /\ password_correct' = "False"
    /\ run' = [NoRun EXCEPT !.prog = "app", !.op = "logout", !.after = run.op,
                            !.gate = password_correct, !.outcome = "login_screen"]
    /\ UNCHANGED <<backoffice, sales, wall, dashboard_unlocked>>

\* app.py: a run of the Dashboard page: "view", "unlock" with the text in the
\* owner password input, or "lock"
AppDashboard(click, admin_input) ==
    /\ CheckPassword(password_correct)
    /\ click = "lock" => dashboard_unlocked = "True"
    /\ click = "unlock" => dashboard_unlocked # "True"
    /\ DashboardPage(click, password_correct, click, admin_input)
    /\ UNCHANGED <<backoffice, sales, wall, password_correct>>

\* the two programs with sales pages
Counters == {"app", "moon"}

\* the session-state flag a page of prog runs under (moon.py's sales pages
\* have no gate)
GateOf(prog) == IF prog = "app" THEN password_correct ELSE "absent"
Admitted(prog) == prog = "app" => CheckPassword(password_correct)

\* New Sale, Confirm Order.  app.py reads the table with pd.read_csv(file),
\* moon.py with load_sales_data().
ConfirmOrder(prog, f) ==
    /\ Admitted(prog)
    /\ Len(sales) < MaxOrders
    /\ IF f.cust_name = ""
       THEN /\ run' = [NoRun EXCEPT !.prog = prog, !.op = "confirm", !.after = run.op,
                                    !.gate = GateOf(prog), !.form = <<f>>,
                                    !.outcome = "name_required"]
            /\ UNCHANGED sales
       ELSE /\ sales' = Append(IF prog = "app" THEN PlainRewrite(sales)
                                ELSE LoadRewrite(sales),
                               NewEntry(f, wall))
            /\ run' = [NoRun EXCEPT !.prog = prog, !.op = "confirm", !.after = run.op,
                                    !.gate = GateOf(prog), !.form = <<f>>,
                                    !.outcome = "saved", !.read = TRUE, !.wrote = TRUE]
    /\ UNCHANGED <<backoffice, wall, password_correct, dashboard_unlocked>>

\* Manage Orders, Save Changes on the fetched Order_ID:
\* sales_df.loc[sales_df["Order_ID"] == order_to_fetch, [...]] = [...]
SaveChanges(prog, id, u) ==
    /\ Admitted(prog)
    /\ sales # <<>>
    /\ LET sales_df == LoadRewrite(sales)
           fetched == SelectSeq(sales_df, LAMBDA r : r.Order_ID = id)
       IN  IF fetched # <<>>
           THEN /\ sales' = [k \in 1..Len(sales_df) |->
                               IF sales_df[k].Order_ID = id
                               THEN [sales_df[k] EXCEPT !.Work_Status = u.work,
                                                        !.Payment_Status = u.pay,
                                                        !.Payment_Type = u.type,
                                                        !.Notes = Typed(u.notes)]
                               ELSE sales_df[k]]
                /\ run' = [NoRun EXCEPT !.prog = prog, !.op = "save_changes",
                                        !.after = run.op, !.gate = GateOf(prog), !.id = id,
                                        !.outcome = "updated", !.read = TRUE, !.wrote = TRUE]
           ELSE /\ run' = [NoRun EXCEPT !.prog = prog, !.op = "save_changes",
                                        !.after = run.op, !.gate = GateOf(prog), !.id = id,
                                        !.outcome = "not_found", !.read = TRUE]
                /\ UNCHANGED sales
    /\ UNCHANGED <<backoffice, wall, password_correct, dashboard_unlocked>>

\* Manage Orders, Delete Permanently on the fetched Order_ID:
\* sales_df[sales_df["Order_ID"] != order_to_fetch]
DeleteOrder(prog, id) ==
    /\ Admitted(prog)
    /\ sales # <<>>
    /\ LET sales_df == LoadRewrite(sales)
           fetched == SelectSeq(sales_df, LAMBDA r : r.Order_ID = id)
       IN  IF fetched # <<>>
           THEN /\ sales' = SelectSeq(sales_df, LAMBDA r : r.Order_ID # id)
                /\ run' = [NoRun EXCEPT !.prog = prog, !.op = "delete",
                                        !.after = run.op, !.gate = GateOf(prog), !.id = id,
                                        !.outcome = "deleted", !.read = TRUE, !.wrote = TRUE]
           ELSE /\ run' = [NoRun EXCEPT !.prog = prog, !.op = "delete",
                                        !.after = run.op, !.gate = GateOf(prog), !.id = id,
                                        !.outcome = "not_found", !.read = TRUE]
                /\ UNCHANGED sales
    /\ UNCHANGED <<backoffice, wall, password_correct, dashboard_unlocked>>

\* the text Done typed into a Work_Status cell
EditedStatus == "Done"

\* the amount typed into an Additionals or a Misc_Amount cell
EditedPesos == 7

\* what is done in the bulk editor before saving: nothing; another option
\* chosen in a Work Status cell; the cell emptied (no column is required); a
\* Notes text, an Additionals or a Misc_Amount typed (app.py disables
\* "Add_on_Fixed" and "Open_Amount", which are no columns of the table); or,
\* where the cell is a text cell, a text typed into Work_Status
AppBulkEdits == {"none", "option", "clear", "notes", "additionals", "misc"}
MoonBulkEdits == AppBulkEdits \cup {"text"}

BulkApply(shown, kind, i) ==
    CASE kind = "none" -> shown
      [] kind = "option" -> [shown EXCEPT ![i].Work_Status = "Ready"]
      [] kind = "clear" -> [shown EXCEPT ![i].Work_Status = ""]
      [] kind = "notes" -> [shown EXCEPT ![i].Notes = Typed("edited")]
      [] kind = "additionals" -> [shown EXCEPT ![i].Additionals = EditedPesos]
      [] kind = "misc" -> [shown EXCEPT ![i].Misc_Amount = EditedPesos]
      [] kind = "text" -> [shown EXCEPT ![i].Work_Status = EditedStatus]

\* Manage Orders, the bulk editor and its save button.  app.py gives the three
\* status columns a SelectboxColumn with the options; moon.py passes no
\* column_config, so its status cells are text cells.
BulkSave(prog, kind, i) ==
    /\ Admitted(prog)
    /\ sales # <<>>
    /\ i \in 1..Len(sales)
    /\ kind \in (IF prog = "app" THEN AppBulkEdits ELSE MoonBulkEdits)
    /\ sales' = BulkApply(LoadRewrite(sales), kind, i)
    /\ run' = [NoRun EXCEPT !.prog = prog, !.op = "bulk_save", !.after = run.op,
                            !.gate = GateOf(prog), !.outcome = kind,
                            !.read = TRUE, !.wrote = TRUE]
    /\ UNCHANGED <<backoffice, wall, password_correct, dashboard_unlocked>>

AppEnterPasswordStep == \E pw \in Passwords : AppEnterPassword(pw)
AppDashboardStep ==
    \E click \in {"view", "unlock", "lock"}, pw \in Passwords : AppDashboard(click, pw)
AppLogin == AppEnterPassword(ACCESS_PASSWORD)
AppConfirmOrder == \E f \in OrderForms : ConfirmOrder("app", f)
MoonConfirmOrder == \E f \in OrderForms : ConfirmOrder("moon", f)
AppSaveChanges == \E id \in FetchIds, u \in Updates : SaveChanges("app", id, u)
MoonSaveChanges == \E id \in FetchIds, u \in Updates : SaveChanges("moon", id, u)
AppDeleteOrder == \E id \in FetchIds : DeleteOrder("app", id)
MoonDeleteOrder == \E id \in FetchIds : DeleteOrder("moon", id)
AppBulkSave == \E kind \in AppBulkEdits, i \in 1..MaxOrders : BulkSave("app", kind, i)
MoonBulkSave == \E kind \in MoonBulkEdits, i \in 1..MaxOrders : BulkSave("moon", kind, i)

\* SpecOrders: the sales pages of both programs, app.py after its login, the
\* bulk editor used on Work_Status only
OrdersEdits == {"none", "option", "text"}
OrdersAppBulkSave ==
    \E kind \in AppBulkEdits \cap OrdersEdits, i \in 1..MaxOrders : BulkSave("app", kind, i)
OrdersMoonBulkSave ==
    \E kind \in MoonBulkEdits \cap OrdersEdits, i \in 1..MaxOrders : BulkSave("moon", kind, i)

NextOrders ==
    \/ WallTick
    \/ AppLogin
    \/ AppConfirmOrder
    \/ MoonConfirmOrder
    \/ AppSaveChanges
    \/ MoonSaveChanges
    \/ AppDeleteOrder
    \/ MoonDeleteOrder
    \/ OrdersAppBulkSave
    \/ OrdersMoonBulkSave

SpecOrders == Init /\ [][NextOrders]_vars

\* the New Sale form of the specifications that take one
GateForms == {f \in OrderForms : f.cust_name = "Ana"}

\* SpecBulk: the sales pages of both programs within one second, every edit
\* of the bulk editors
BulkConfirmOrder == \E prog \in Counters, f \in GateForms : ConfirmOrder(prog, f)

NextBulk ==
    \/ AppLogin
    \/ BulkConfirmOrder
    \/ AppSaveChanges
    \/ MoonSaveChanges
    \/ AppDeleteOrder
    \/ MoonDeleteOrder
    \/ AppBulkSave
    \/ MoonBulkSave

SpecBulk == Init /\ [][NextBulk]_vars

\* SpecGate: one session of app.py, its two password gates and its pages
GateConfirmOrder == \E f \in GateForms : ConfirmOrder("app", f)
GateBulkSave == \E i \in 1..MaxOrders : BulkSave("app", "none", i)

NextGate ==
    \/ AppEnterPasswordStep
    \/ AppLogOut
    \/ AppDashboardStep
    \/ GateConfirmOrder
    \/ AppSaveChanges
    \/ AppDeleteOrder
    \/ GateBulkSave

SpecGate == Init /\ [][NextGate]_vars

\* ------------- SpecStart: either tracker, started with blank and other texts
AnyTexts == Projects \cup StartTexts

AnyStartTimer == \E p \in AnyTexts, t \in AnyTexts : StartTimer(p, t)
AnyOnlineStart == \E p \in AnyTexts, t \in AnyTexts : OnlineStart(p, t)

NextStart ==
    \/ Tick
    \/ AnyStartTimer
    \/ StopTimerStep
    \/ AnyOnlineStart
    \/ OnlineStopStep
    \/ OnlineSaveTableStep

SpecStart == InitRates /\ [][NextStart]_vars

\* ------------------------------------------- SpecSplit: the split alone
InitSplit ==
    /\ employees = <<>>
    /\ dtr = <<>>
    /\ last = NoLast
    /\ sess = [s \in Sessions |-> IdleSession]
    /\ InitTrackers
    /\ InitCounter
    /\ program = "clocky"
    /\ \E f \in Forms, i \in TimeGrid, o \in TimeGrid :
          calc = [NoCalc EXCEPT !.form = f, !.t_in = i, !.t_out = o]

ApplySplit(f) ==
    /\ calc.form = f
    /\ ~calc.done
    /\ LET h == HoursSplit(f, calc.t_in, calc.t_out)
       IN  calc' = [calc EXCEPT !.done = TRUE, !.raw = h.raw, !.adjusted = h.adjusted,
                                !.reg = h.reg, !.ot = h.ot]
    /\ UNCHANGED <<employees, dtr, last, sess, outside>>

EmpSplit == ApplySplit("emp")
StaffSplit == ApplySplit("staff")
AdminSplit == ApplySplit("admin")

NextSplit == EmpSplit \/ StaffSplit \/ AdminSplit

SpecSplit == InitSplit /\ [][NextSplit]_vars

\* ------------- SpecBreak: the one-hour break around five raw hours, by the minute
\* the two forms that deduct one hour, two clock-in times, and every raw
\* duration from four to seven hours
BreakForms == {"emp", "staff"}
BreakIns == {8 * MinutesPerHour, 9 * MinutesPerHour + 7}
BreakSpans == (4 * MinutesPerHour)..(7 * MinutesPerHour)

InitBreak ==
    /\ employees = <<>>
    /\ dtr = <<>>
    /\ last = NoLast
    /\ sess = [s \in Sessions |-> IdleSession]
    /\ InitTrackers
    /\ InitCounter
    /\ program = "clocky"
    /\ \E f \in BreakForms, i \in BreakIns, d \in BreakSpans :
          calc = [NoCalc EXCEPT !.form = f, !.t_in = i, !.t_out = i + d]

NextBreak == EmpSplit \/ StaffSplit

SpecBreak == InitBreak /\ [][NextBreak]_vars

\* =================================================================== claims
\* the Log Time step just taken, and the row its form computed
LoggedRow == last.row[1]
IsLogTime == last.op = "LogTime"
IsGenerate == last.op = "Generate"

\* the rows of the stored DTR table dated within the requested closed period
InRequestedPeriod(r) == last.start <= r.Date /\ r.Date <= last.end
EntriesInPeriod == SelectSeq(dtr, InRequestedPeriod)

\* hours * hourly_rate * multiplier in the model's pay unit
Pay(hours, rate, mult) == hours * rate * mult

\* C1: every Reg_Hours written to the DTR table lies in [0, 8] hours and every
\* OT_Hours written is >= 0, whatever pair of clock times the form was given.
C1_StoredHoursInRange ==
    \A k \in 1..Len(dtr) :
        /\ 0 <= dtr[k].Reg_Hours
        /\ dtr[k].Reg_Hours <= 8 * 60
        /\ dtr[k].OT_Hours >= 0

\* C2: in a payroll generation of either program the holiday premium of an
\* entry is non-zero only if the entry was logged with is_holiday true, and then
\* it is reg_hours * hourly_rate * (holiday_rate - 1).
C2_PremiumOnlyOnHoliday ==
    IsGenerate =>
        \A k \in 1..Len(last.merged) :
            LET x == last.merged[k]
            IN  ~x.Hourly_Rate.nan =>
                  /\ x.Holiday_Premium.v # 0 => x.Is_Holiday = "True"
                  /\ x.Is_Holiday = "True" =>
                        x.Holiday_Premium.v =
                            Pay(x.Reg_Hours.v, x.Hourly_Rate.v, x.Holiday_Rate.v - 100)

\* C3: a Log Time for an (employee, date) that already has an entry is refused
\* as a duplicate and leaves the DTR table as it was, in every form (so the
\* table, empty at first, never holds two entries of one employee and date).
C3_DuplicateRejected ==
    [][(last'.op = "LogTime"
        /\ AdminIsDuplicate(dtr, last'.row[1].Employee_ID, last'.row[1].Date))
       => (last'.outcome = "duplicate" /\ dtr' = dtr)]_vars

\* two stored rows that every loader reads as the same row
SameRow(a, b) ==
    /\ [a EXCEPT !.Name = ""] = [b EXCEPT !.Name = ""]
    /\ EmpReadText(a.Name) = EmpReadText(b.Name)

\* C4: a Log Time for an (employee, date) without an entry appends exactly one
\* row, the one with the computed hours, and leaves the rows already stored
\* unchanged, in the admin form as in the others.
C4_NewEntryAppended ==
    [][(last'.op = "LogTime"
        /\ ~AdminIsDuplicate(dtr, last'.row[1].Employee_ID, last'.row[1].Date))
       => (/\ Len(dtr') = Len(dtr) + 1
           /\ dtr'[Len(dtr')] = last'.row[1]
           /\ \A k \in 1..Len(dtr) : SameRow(dtr'[k], dtr[k]))]_vars

\* C5: for every entry joined with its rate card, entry_total is
\* reg*rate + ot*rate*ot_rate + (reg*rate*(holiday_rate - 1) if the entry was
\* logged as a holiday, else 0); 8 h regular and 3 h overtime on a holiday at
\* 100, 1.25 and 2.0 give 800, 375, 800 and 1975.
C5_EntryTotal ==
    IsGenerate =>
        \A k \in 1..Len(last.merged) :
            LET x == last.merged[k]
                prem == IF x.Is_Holiday = "True"
                        THEN Pay(x.Reg_Hours.v, x.Hourly_Rate.v, x.Holiday_Rate.v - 100)
                        ELSE 0
            IN  ~x.Hourly_Rate.nan =>
                  /\ x.Total.v = Pay(x.Reg_Hours.v, x.Hourly_Rate.v, 100)
                                 + Pay(x.OT_Hours.v, x.Hourly_Rate.v, x.OT_Rate.v) + prem
                  /\ (/\ x.Reg_Hours.v = 8 * 60 /\ x.OT_Hours.v = 3 * 60
                      /\ x.Is_Holiday = "True" /\ x.Hourly_Rate.v = 100
                      /\ x.OT_Rate.v = 125 /\ x.Holiday_Rate.v = 200)
                     => (/\ x.Base_Pay.v = 800 * 6000 /\ x.OT_Pay.v = 375 * 6000
                         /\ x.Holiday_Premium.v = 800 * 6000 /\ x.Total.v = 1975 * 6000)

\* the break a form takes off a duration of more than five hours
BreakOf(form) == IF form = "admin" THEN 30 ELSE 60

\* C6: for every pair of clock times, adjusted is the raw duration when that is
\* at most 5 hours and the raw duration less the form's break when it is more;
\* reg = min(adjusted, 8), ot = max(adjusted - 8, 0), and reg + ot = adjusted.
C6_HoursSplit ==
    calc.done =>
        /\ calc.raw = calc.t_out - calc.t_in
        /\ calc.raw <= 5 * 60 => calc.adjusted = calc.raw
        /\ calc.raw > 5 * 60 => calc.adjusted = calc.raw - BreakOf(calc.form)
        /\ calc.reg = (IF calc.adjusted < 8 * 60 THEN calc.adjusted ELSE 8 * 60)
        /\ calc.ot = (IF calc.adjusted > 8 * 60 THEN calc.adjusted - 8 * 60 ELSE 0)
        /\ calc.reg + calc.ot = calc.adjusted

\* a split of exactly five raw hours has been computed, where no break is due
C6_Witness == calc.done /\ calc.raw = 5 * 60 /\ calc.reg = 5 * 60 /\ calc.ot = 0

\* C7: in every form 08:00-17:00 gives reg 8 and ot 0, and 08:00-20:00 gives
\* reg 8 and ot 3: the break is one hour in every variant.
C7_OneHourBreak ==
    (IsLogTime /\ LoggedRow.Time_In = 8 * 60) =>
        /\ LoggedRow.Time_Out = 17 * 60 =>
              (LoggedRow.Reg_Hours = 8 * 60 /\ LoggedRow.OT_Hours = 0)
        /\ LoggedRow.Time_Out = 20 * 60 =>
              (LoggedRow.Reg_Hours = 8 * 60 /\ LoggedRow.OT_Hours = 3 * 60)

\* C8: the summary has exactly one row for each Employee_ID with an entry in
\* the period and no row for any other Employee_ID.
C8_OneRowPerEmployee ==
    IsGenerate =>
        \A id \in {dtr[k].Employee_ID : k \in 1..Len(dtr)}
                 \cup {employees[k].Employee_ID : k \in 1..Len(employees)} :
            Cardinality({s \in last.summary : s.Employee_ID = id})
              = (IF \E k \in 1..Len(EntriesInPeriod) : EntriesInPeriod[k].Employee_ID = id
                 THEN 1 ELSE 0)

\* C9: a generation takes in exactly the entries with start <= date <= end, in
\* table order, and reports no logs exactly when there is none.
C9_ClosedPeriod ==
    IsGenerate =>
        /\ (last.outcome = "no_logs") = (EntriesInPeriod = <<>>)
        /\ last.outcome = "summary" =>
              /\ Len(last.merged) = Len(EntriesInPeriod)
              /\ \A k \in 1..Len(last.merged) :
                    /\ last.merged[k].Date = EntriesInPeriod[k].Date
                    /\ last.merged[k].Employee_ID = EntriesInPeriod[k].Employee_ID
                    /\ last.merged[k].Is_Holiday = EntriesInPeriod[k].Is_Holiday

\* a one-day period took in the entry dated that day (a date both start and
\* end) and left out an entry dated the day before
C9_Witness ==
    /\ IsGenerate
    /\ last.start = last.end
    /\ Len(last.merged) = 1
    /\ last.merged[1].Date = last.start
    /\ \E k \in 1..Len(dtr) : dtr[k].Date = last.start - 1

RECURSIVE SumInts(_)
SumInts(ns) == IF ns = <<>> THEN 0 ELSE Head(ns) + SumInts(Tail(ns))

\* the rate card of an Employee_ID in the stored employee table
CardOf(id) == MatchesOf(employees, id)[1]

\* entry_total of a stored entry: base pay, overtime pay and holiday premium
EntryTotal(r) ==
    IF MatchesOf(employees, r.Employee_ID) = <<>> THEN 0
    ELSE LET c == CardOf(r.Employee_ID)
         IN  Pay(r.Reg_Hours, c.Hourly_Rate, 100) + Pay(r.OT_Hours, c.Hourly_Rate, c.OT_Rate)
             + (IF r.Is_Holiday = "True"
                THEN Pay(r.Reg_Hours, c.Hourly_Rate, c.Holiday_Rate - 100) ELSE 0)

SummaryReg(s) == IF last.form = "emp" THEN s.Total_Reg_Hours ELSE s.Reg_Hrs
SummaryOt(s) == IF last.form = "emp" THEN s.Total_OT_Hours ELSE s.OT_Hrs
SummaryTotal(s) == IF last.form = "emp" THEN s.Grand_Total ELSE s.Net_Pay

\* C10: for each employee in the summary, the regular hours, the overtime hours
\* and the grand total are the sums of reg_hours, ot_hours and entry_total over
\* that employee's entries in the period, in whatever order the table holds them.
C10_TotalsAreSums ==
    IsGenerate =>
        \A s \in last.summary :
            LET mine == SelectSeq(EntriesInPeriod, LAMBDA r : r.Employee_ID = s.Employee_ID)
            IN  /\ SummaryReg(s) = SumInts([k \in 1..Len(mine) |-> mine[k].Reg_Hours])
                /\ SummaryOt(s) = SumInts([k \in 1..Len(mine) |-> mine[k].OT_Hours])
                /\ SummaryTotal(s) = SumInts([k \in 1..Len(mine) |-> EntryTotal(mine[k])])

\* C11: a payroll generation leaves the Employee and DTR tables as they were,
\* and a generation that follows one of the same program for the same period
\* (so on the same tables) gives the same outcome, merged frame and summary.
C11_GenerateIsPure ==
    [][last'.op = "Generate"
       => (/\ employees' = employees
           /\ dtr' = dtr
           /\ (/\ last.op = "Generate" /\ last.form = last'.form
               /\ last.start = last'.start /\ last.end = last'.end)
              => (/\ last'.outcome = last.outcome
                  /\ last'.merged = last.merged
                  /\ last'.summary = last.summary))]_vars

\* a generation over stored entries has produced summary rows
C11_Witness ==
    /\ IsGenerate
    /\ last.outcome = "summary"
    /\ last.summary # {}
    /\ Len(dtr) = MaxRows

\* C12: a generation for a period that holds no entry of the DTR table (the
\* table is empty, or start is later than end, or no date falls inside) reports
\* "no logs", has no summary row and writes to neither table.
C12_NoLogs ==
    [][(/\ last'.op = "Generate"
        /\ ~\E k \in 1..Len(dtr) : last'.start <= dtr[k].Date /\ dtr[k].Date <= last'.end)
       => (/\ last'.outcome = "no_logs"
           /\ last'.summary = {}
           /\ last'.merged = <<>>
           /\ employees' = employees
           /\ dtr' = dtr)]_vars

\* a generation with start later than end over a table that holds entries
C12_Witness ==
    /\ IsGenerate
    /\ last.start > last.end
    /\ dtr # <<>>
    /\ last.outcome = "no_logs"
    /\ last.summary = {}

\* the in-period entries of an Employee_ID
EntriesOf(id) == SelectSeq(EntriesInPeriod, LAMBDA r : r.Employee_ID = id)

\* the Employee_IDs of in-period entries that no row of the Employee table has
OrphanIds ==
    {EntriesInPeriod[k].Employee_ID : k \in
        {j \in 1..Len(EntriesInPeriod) :
            MatchesOf(employees, EntriesInPeriod[j].Employee_ID) = <<>>}}

RECURSIVE SumOverRows(_, _)
\* the sum of one hours column ("reg" or "ot") over a set of summary rows
SumOverRows(rows, col) ==
    IF rows = {} THEN 0
    ELSE LET s == CHOOSE x \in rows : TRUE
         IN  (IF col = "reg" THEN SummaryReg(s) ELSE SummaryOt(s))
             + SumOverRows(rows \ {s}, col)

\* C13: a generation over an in-period entry whose Employee_ID is in no row of
\* the Employee table still produces the summary; that Employee_ID has a
\* summary row, every pay total of its rows is 0, and its hour totals are the
\* sums of the Reg_Hours and OT_Hours of its entries.
C13_UnknownEmployee ==
    IsGenerate =>
        \A id \in OrphanIds :
            LET rows == {s \in last.summary : s.Employee_ID = id}
                mine == EntriesOf(id)
            IN  /\ last.outcome = "summary"
                /\ rows # {}
                /\ \A s \in rows :
                      /\ SummaryTotal(s) = 0
                      /\ last.form = "emp" =>
                            (s.Total_Base_Pay = 0 /\ s.Total_OT_Pay = 0 /\ s.Total_Hol_Pay = 0)
                /\ SumOverRows(rows, "reg") = SumInts([k \in 1..Len(mine) |-> mine[k].Reg_Hours])
                /\ SumOverRows(rows, "ot") = SumInts([k \in 1..Len(mine) |-> mine[k].OT_Hours])

\* C14: when employees are only ever added by Save Employee, one run after
\* another from the empty table, the k-th row has Employee_ID "EMP-" and the
\* three decimal digits of k, and no two rows have the same Employee_ID.
C14_SequentialIds ==
    /\ \A k \in 1..Len(employees) :
          LET id == employees[k].Employee_ID
          IN  /\ Len(id) = 4
              /\ id[1] = "EMP-"
              /\ \A j \in 2..4 : id[j] \in 0..9
              /\ 100 * id[2] + 10 * id[3] + id[4] = k
    /\ \A a, b \in 1..Len(employees) :
          a # b => employees[a].Employee_ID # employees[b].Employee_ID

\* the twelfth employee has been saved, as EMP-012
C14_Witness ==
    /\ Len(employees) >= 12
    /\ employees[12].Employee_ID = <<"EMP-", 0, 1, 2>>
    /\ last.op = "SaveEmployee"

\* two sessions that ran the same handler from the same loaded table and have
\* both written
BothSaved(s, t, op) ==
    /\ s # t
    /\ sess[s].pc = "saved" /\ sess[t].pc = "saved"
    /\ sess[s].op = op /\ sess[t].op = op
    /\ sess[s].snap = sess[t].snap

\* C15: when two sessions run Save Employee and both load the employee table
\* before either saves, both new employees get the same Employee_ID, and after
\* both saves the table is the loaded table and one of the two employees.
C15_IdCollision ==
    \A s, t \in Sessions :
        BothSaved(s, t, "SaveEmployee") =>
            /\ sess[s].row[1].Employee_ID = sess[t].row[1].Employee_ID
            /\ Len(employees) = Len(sess[s].snap) + 1
            /\ SubSeq(employees, 1, Len(sess[s].snap)) = sess[s].snap
            /\ employees[Len(employees)] \in {sess[s].row[1], sess[t].row[1]}

\* both sessions saved a different employee from the same loaded table, and
\* the first saver's employee is gone
C15_Witness ==
    \E s, t \in Sessions :
        /\ BothSaved(s, t, "SaveEmployee")
        /\ sess[s].row[1].Name # sess[t].row[1].Name
        /\ \A k \in 1..Len(employees) : employees[k] # sess[s].row[1]

\* C16: a Log Time and another writer of the DTR table (a Log Time, or a bulk
\* editor save that changed nothing) that loaded the same table do not both
\* take effect: the table is what the later of the two wrote from its own
\* copy, so an entry whose save completed can be absent from the table.
C16_LastWriterWins ==
    \A s, t \in Sessions :
        (/\ s # t
         /\ sess[s].pc = "saved" /\ sess[s].op = "LogTime"
         /\ sess[t].pc = "saved" /\ sess[t].snap = sess[s].snap
         /\ \/ sess[t].op = "LogTime"
            \/ sess[t].op = "SaveLogs" /\ sess[t].edit = "none")
        => \/ dtr = sess[s].snap \o sess[s].row
           \/ sess[t].op = "LogTime" /\ dtr = sess[t].snap \o sess[t].row
           \/ sess[t].op = "SaveLogs" /\ dtr \in DescByDate(sess[t].snap)

\* the rows of a table
RowsOf(table) == {table[k] : k \in 1..Len(table)}

\* a Log Time entry whose save completed is absent from the DTR table, after
\* another Log Time or an editor save made from the same loaded table
C16_Witness ==
    \E s, t \in Sessions :
        /\ s # t
        /\ sess[s].pc = "saved" /\ sess[s].op = "LogTime"
        /\ sess[t].pc = "saved" /\ sess[t].snap = sess[s].snap
        /\ \/ sess[t].op = "LogTime"
           \/ sess[t].op = "SaveLogs" /\ sess[t].edit = "none"
        /\ sess[s].row[1] \notin RowsOf(dtr)

\* C17: a stop of a running timer adds one row to the tree and one row to
\* the CSV file and sets the button to "Start", whatever starts, stops and
\* deletes came before; a stop without a running timer changes nothing.
C17_StopRecords ==
    [][did'.op = "stop" /\ timer_running
       => (/\ Len(tree') = Len(tree) + 1
           /\ Len(records_file') = Len(records_file) + 1
           /\ SubSeq(tree', 1, Len(tree)) = tree
           /\ button' = "Start"
           /\ ~timer_running')]_vars

\* C18: the start and end the CSV file holds for a record are the date and
\* time last set for it: after a stop, the moments the timer was started and
\* stopped; after an Edit Save, the start and end entered in the dialog.
C18_StoredMoments ==
    /\ (did.op = "stop" /\ did.outcome = "recorded") =>
          /\ records_file[did.pos].start = did.start
          /\ records_file[did.pos].end = did.end
    /\ (did.op = "edit" /\ did.outcome = "saved") =>
          /\ records_file[did.pos].start = did.start
          /\ records_file[did.pos].end = did.end

\* C19: Delete Selected removes the selected record's row from the CSV file
\* and leaves every other row as it was, whichever row is selected.
C19_DeleteExactlyOne ==
    [][did'.op = "delete" => records_file' = RemoveAt(records_file, did'.pos)]_vars

\* the hours and the amount of each stored record, in file order
HoursAndAmounts(file) ==
    [k \in 1..Len(file) |-> <<file[k].hours, file[k].amount>>]

\* amount = hours * rate for a billable record and 0 for any other
AmountAtRate(rec, rate) ==
    rec.amount = (IF rec.billable = "True" THEN (rec.hours * rate) \div 10 ELSE 0)

\* C20: in each tracker a change of the hourly rate puts the new rate in the
\* config file and leaves the stored records as they were; a record created by
\* a stop has amount = hours * the rate in the config file at that time when
\* billable and 0 when not, and the records stored before keep their hours
\* and amount; the rate reaches no record created before the change: an Edit
\* Save that leaves a record's hours and Billable as they were leaves its
\* amount as it was.
C20_RateChange ==
    [][/\ \A val \in Rates :
            /\ SetHourlyRate(val) =>
                  /\ config_file' = <<val>>
                  /\ records_file' = records_file
                  /\ tree' = tree
            /\ OnlineSetRate(val) =>
                  /\ online_config' = <<val>>
                  /\ online_records' = online_records
       /\ \A p \in Projects, t \in Tasks, b \in BOOLEAN :
            /\ (StopTimer(p, t, b) /\ did'.outcome = "recorded") =>
                  /\ Len(records_file') = Len(records_file) + 1
                  /\ AmountAtRate(records_file'[Len(records_file')],
                                  LoadConfig(config_file))
                  /\ SubSeq(HoursAndAmounts(records_file'), 1, Len(records_file))
                       = HoursAndAmounts(records_file)
            /\ OnlineStop(p, t, b) =>
                  /\ Len(online_records') = Len(online_records) + 1
                  /\ AmountAtRate(online_records'[Len(online_records')],
                                  LoadConfig(online_config))
                  /\ SubSeq(online_records', 1, Len(online_records)) = online_records
       /\ \A w \in 1..MaxDialogs, x \in EditEntries :
            (EditSave(w, x.proj, x.task, x.start_e, x.end_e, x.bill)
               /\ did'.outcome = "saved") =>
               LET i == did'.pos
               IN  (tree'[i].hours = tree[i].hours /\ tree'[i].billable = tree[i].billable)
                   => /\ tree'[i].amount = tree[i].amount
                      /\ HoursAndAmounts(records_file') = HoursAndAmounts(records_file)]_vars

\* C21: after any sequence of Log Time actions and bulk-editor saves, the
\* Reg_Hours and OT_Hours of every stored DTR row are the hours split of that
\* row's own Time_In and Time_Out.
C21_StoredHoursDerived ==
    \A k \in 1..Len(dtr) :
        LET h == HoursSplit("emp", dtr[k].Time_In, dtr[k].Time_Out)
        IN  dtr[k].Reg_Hours = h.reg /\ dtr[k].OT_Hours = h.ot

\* C22: a Confirm Order with a customer name appends exactly one row, whose
\* Additionals is detergent price + fabric-conditioner price and whose Amount
\* is tier price * loads + Additionals + misc amount (tier price 125 or 150,
\* loads >= 1), and leaves every row already in the sales table as it was.
C22_ConfirmOrder ==
    [][\A prog \in Counters, f \in OrderForms :
          (f.cust_name # "" /\ ConfirmOrder(prog, f))
       => LET r == sales'[Len(sales')]
          IN  /\ Len(sales') = Len(sales) + 1
              /\ TIERS[f.selected_tier] \in {125, 150}
              /\ f.loads >= 1
              /\ r.Additionals = f.det_price + f.fab_price
              /\ r.Amount = TIERS[f.selected_tier] * f.loads + r.Additionals + f.open_amt
              /\ SubSeq(sales', 1, Len(sales)) = sales]_vars

\* C23: with the one-hour break the credited hours (reg + ot) do not grow with
\* the raw duration: exactly 5 raw hours are credited 5 hours, and every raw
\* duration strictly between 5 and 6 hours is credited less than 5 hours.
C23_BreakNotMonotone ==
    (calc.done /\ calc.form \in BreakForms) =>
        /\ calc.raw = 5 * 60 => calc.reg + calc.ot = 5 * 60
        /\ (calc.raw > 5 * 60 /\ calc.raw < 6 * 60) => calc.reg + calc.ot < 5 * 60

\* a split of 5 hours 1 minute has been computed and credits 4 hours 1 minute
C23_Witness ==
    /\ calc.done
    /\ calc.form \in BreakForms
    /\ calc.raw = 5 * 60 + 1
    /\ calc.reg + calc.ot = 4 * 60 + 1

\* C24: in app.py a run reads, shows or writes sales data only while
\* password_correct is true; the flag becomes true only by entering
\* ACCESS_PASSWORD, a wrong password and Log Out make it false, and so after a
\* Log Out no page is run until the password is entered again.
C24_PasswordGate ==
    [][/\ (run'.prog = "app" /\ (run'.read \/ run'.wrote \/ sales' # sales))
            => \/ password_correct = "True"
               \/ /\ run'.op = "login"
                  /\ run'.entered = ACCESS_PASSWORD
                  /\ password_correct' = "True"
       /\ (password_correct' = "True" /\ password_correct # "True")
            => (run'.op = "login" /\ run'.entered = ACCESS_PASSWORD)
       /\ (run'.op = "login" /\ run'.entered # ACCESS_PASSWORD)
            => (password_correct' = "False" /\ ~run'.read /\ ~run'.wrote)
       /\ run'.op = "logout"
            => (password_correct' = "False" /\ ~run'.read /\ ~run'.wrote)]_vars

\* a session that stored an order, was logged out, entered a wrong password
\* and then the right one
C24_Witness ==
    /\ password_correct = "True"
    /\ run.op = "login"
    /\ run.after = "login"
    /\ sales # <<>>

\* C25: Log Out leaves dashboard_unlocked as it is, only Lock Dashboard makes
\* an unlocked dashboard locked, and a login of a session whose dashboard is
\* unlocked shows the metrics in the same run, no owner password being asked.
C25_LogOutKeepsDashboard ==
    [][/\ run'.op = "logout" => dashboard_unlocked' = dashboard_unlocked
       /\ (dashboard_unlocked = "True" /\ dashboard_unlocked' # "True")
            => run'.op = "lock"
       /\ (run'.op = "login" /\ password_correct' = "True" /\ dashboard_unlocked = "True")
            => /\ run'.outcome = "metrics"
               /\ run'.read
               /\ run'.metrics = Metrics(sales)
               /\ dashboard_unlocked' = "True"]_vars

\* the login that follows a Log Out shows the metrics of a stored order
C25_Witness ==
    /\ run.op = "login"
    /\ run.after = "logout"
    /\ run.outcome = "metrics"
    /\ run.metrics # <<>>
    /\ dashboard_unlocked = "True"

\* a row that differs from another at most in the four columns of the
\* Update Status form
SameButStatus(a, b) ==
    [a EXCEPT !.Work_Status = b.Work_Status, !.Payment_Status = b.Payment_Status,
              !.Payment_Type = b.Payment_Type, !.Notes = b.Notes] = b

\* C26: Save Changes on a fetched Order_ID changes one row of the sales
\* table, in its Work_Status, Payment_Status, Payment_Type and Notes only, and
\* Delete Permanently removes one row; every other row stays as it was.
C26_OneOrderAffected ==
    [][\A prog \in Counters, id \in FetchIds, u \in Updates :
       /\ (SaveChanges(prog, id, u) /\ run'.outcome = "updated")
            => \E k \in 1..Len(sales) :
                  /\ sales[k].Order_ID = run'.id
                  /\ Len(sales') = Len(sales)
                  /\ SameButStatus(sales'[k], sales[k])
                  /\ \A j \in 1..Len(sales) : j # k => sales'[j] = sales[j]
       /\ (DeleteOrder(prog, id) /\ run'.outcome = "deleted")
            => \E k \in 1..Len(sales) :
                  /\ sales[k].Order_ID = run'.id
                  /\ sales' = RemoveAt(sales, k)]_vars

\* C27: every row of the sales table has Work_Status in {WIP, Ready, Claimed},
\* Payment_Status in {Paid, Unpaid} and Payment_Type in {Cash, GCash}, after
\* any sequence of Confirm Order, Save Changes, Delete and bulk-editor saves of
\* either program.
C27_StatusEnums ==
    \A k \in 1..Len(sales) :
        /\ sales[k].Work_Status \in {"WIP", "Ready", "Claimed"}
        /\ sales[k].Payment_Status \in {"Paid", "Unpaid"}
        /\ sales[k].Payment_Type \in {"Cash", "GCash"}

\* C28: in both trackers a Start request whose project or task is empty or
\* only blanks leaves the timer not running, leaves start_time as it was and
\* creates no record.
C28_BlankStart ==
    [][\A p \in AnyTexts, t \in AnyTexts :
          (Strip(p) = <<>> \/ Strip(t) = <<>>) =>
              /\ StartTimer(p, t) =>
                    /\ ~timer_running'
                    /\ start_time' = start_time
                    /\ tree' = tree
                    /\ records_file' = records_file
              /\ OnlineStart(p, t) =>
                    /\ ~online_running'
                    /\ online_start' = online_start
                    /\ online_records' = online_records]_vars

====
